---------------------------- MODULE Spec2Model ----------------------------
(***************************************************************************)
(* Model of the electroplating calculator: the STL / 3MF geometry          *)
(* ingestion (stlParser, threeMFParser), the surface-area engine           *)
(* (geometry), and the upload pipeline of FileDropZone and App.            *)
(*                                                                         *)
(* Buffers are sequences of bytes (0..255); text is a sequence of          *)
(* character codes.  A JavaScript number is modelled as a binary           *)
(* floating-point value m * 2^e that is rounded to nearest, ties to even,  *)
(* after every arithmetic operation, exactly as IEEE 754 does; the         *)
(* number of significand bits kept is Precision (53 in the program).       *)
(***************************************************************************)
EXTENDS Integers, Sequences, FiniteSets, TLC

(***************************************************************************)
(* Bounds of the model.                                                    *)
(***************************************************************************)
\* significand bits kept by an arithmetic result (the program's doubles keep 53)
Precision == 6

\* triangles in a binary STL input
MaxTris == 2

\* facets in a text STL input
MaxFacets == 3

(***************************************************************************)
(* Generic helpers.                                                        *)
(***************************************************************************)
RECURSIVE Pow(_, _)
Pow(b, n) == IF n <= 0 THEN 1 ELSE b * Pow(b, n - 1)

Pow2(n) == Pow(2, n)

Abs(x) == IF x < 0 THEN -x ELSE x

Min(a, b) == IF a <= b THEN a ELSE b

Max(a, b) == IF a >= b THEN a ELSE b

\* number of bits of n >= 0 (0 for 0)
RECURSIVE BitLen(_)
BitLen(n) == IF n <= 0 THEN 0 ELSE 1 + BitLen(n \div 2)

\* floor of the square root of n >= 0
RECURSIVE ISqrtIn(_, _, _)
ISqrtIn(n, lo, hi) ==
  \* lo * lo <= n < hi * hi
  IF hi - lo <= 1 THEN lo
  ELSE LET mid == (lo + hi) \div 2
       IN  IF mid * mid <= n THEN ISqrtIn(n, mid, hi) ELSE ISqrtIn(n, lo, mid)

ISqrt(n) == ISqrtIn(n, 0, Pow2((BitLen(n) + 1) \div 2))

(***************************************************************************)
(* JavaScript numbers.  A finite value is [k |-> "fin", m, e] = m * 2^e in *)
(* canonical form (m odd, or m = 0 and e = 0); -0 is identified with 0.    *)
(***************************************************************************)
NaN == [k |-> "nan", m |-> 0, e |-> 0]

PosInf == [k |-> "inf", m |-> 1, e |-> 0]

NegInf == [k |-> "inf", m |-> -1, e |-> 0]

\* largest binary exponent of a finite double: values >= 2^1024 overflow
MaxExponent == 1024

IsNaN(x) == x.k = "nan"

IsInf(x) == x.k = "inf"

IsFinite(x) == x.k = "fin"

Sign(x) == IF x.m < 0 THEN -1 ELSE IF x.m > 0 THEN 1 ELSE 0

RECURSIVE Norm(_, _)
Norm(m, e) ==
  IF m = 0 THEN [k |-> "fin", m |-> 0, e |-> 0]
  ELSE IF m % 2 = 0 THEN Norm(m \div 2, e + 1)
  ELSE [k |-> "fin", m |-> m, e |-> e]

\* the finite value s * M * 2^E (M >= 0, s = 1 or -1), or the infinity it overflows to
Finite(s, M, E) ==
  LET n == Norm(M, E)
  IN  IF n.m # 0 /\ BitLen(n.m) + n.e > MaxExponent
      THEN (IF s < 0 THEN NegInf ELSE PosInf)
      ELSE [n EXCEPT !.m = s * n.m]

\* s * (M + f) * 2^E rounded to Precision bits, nearest-even; 0 <= f < 1 and
\* f # 0 iff sticky.  With sticky set the caller supplies M of more than
\* Precision bits.
Round(s, M, E, sticky) ==
  LET L == BitLen(M)
      k == L - Precision
  IN  IF k <= 0 THEN Finite(s, M, E)
      ELSE LET q    == M \div Pow2(k)
               r    == M % Pow2(k)
               half == Pow2(k - 1)
               up   == \/ r > half
                       \/ r = half /\ sticky
                       \/ r = half /\ ~sticky /\ q % 2 = 1
           IN  Finite(s, IF up THEN q + 1 ELSE q, E + k)

\* the integer n as a number
Num(n) == Round(IF n < 0 THEN -1 ELSE 1, Abs(n), 0, FALSE)

\* (n / d) * 2^E for integers n >= 0, d > 0, correctly rounded
RECURSIVE RoundQuot(_, _, _, _)
RoundQuot(s, n, d, E) ==
  IF n = 0 THEN Finite(s, 0, 0)
  ELSE IF BitLen(n \div d) < Precision + 2 THEN RoundQuot(s, 2 * n, d, E - 1)
  ELSE Round(s, n \div d, E, n % d # 0)

\* x * y
FMul(x, y) ==
  IF IsNaN(x) \/ IsNaN(y) THEN NaN
  ELSE IF IsInf(x) \/ IsInf(y)
       THEN (IF Sign(x) * Sign(y) = 0 THEN NaN
             ELSE IF Sign(x) * Sign(y) > 0 THEN PosInf ELSE NegInf)
  ELSE Round(IF Sign(x) * Sign(y) < 0 THEN -1 ELSE 1, Abs(x.m) * Abs(y.m), x.e + y.e, FALSE)

\* x + y
FAdd(x, y) ==
  IF IsNaN(x) \/ IsNaN(y) THEN NaN
  ELSE IF IsInf(x) /\ IsInf(y) THEN (IF x.m = y.m THEN x ELSE NaN)
  ELSE IF IsInf(x) THEN x
  ELSE IF IsInf(y) THEN y
  ELSE IF x.m = 0 THEN y
  ELSE IF y.m = 0 THEN x
  ELSE LET hi == IF x.e >= y.e THEN x ELSE y
           lo == IF x.e >= y.e THEN y ELSE x
           d  == hi.e - lo.e
       IN  \* an operand far below half an ulp of the other cannot change it
           IF d > 2 * Precision + 2 THEN hi
           ELSE LET S == hi.m * Pow2(d) + lo.m
                IN  Round(IF S < 0 THEN -1 ELSE 1, Abs(S), lo.e, FALSE)

FNeg(x) == IF IsNaN(x) THEN NaN ELSE [x EXCEPT !.m = -x.m]

\* x - y
FSub(x, y) == FAdd(x, FNeg(y))

\* x / n for an integer constant n > 0
FDivInt(x, n) ==
  IF IsNaN(x) THEN NaN
  ELSE IF IsInf(x) THEN x
  ELSE RoundQuot(IF x.m < 0 THEN -1 ELSE 1, Abs(x.m), n, x.e)

\* x * n for an integer constant n > 0
FMulInt(x, n) ==
  IF IsNaN(x) THEN NaN
  ELSE IF IsInf(x) THEN x
  ELSE Round(IF x.m < 0 THEN -1 ELSE 1, Abs(x.m) * n, x.e, FALSE)

\* x / y
FDiv(x, y) ==
  IF IsNaN(x) \/ IsNaN(y) THEN NaN
  ELSE IF IsInf(x) /\ IsInf(y) THEN NaN
  ELSE IF IsInf(x) THEN (IF Sign(x) * Sign(y) < 0 THEN NegInf ELSE PosInf)
  ELSE IF IsInf(y) THEN Num(0)
  ELSE IF y.m = 0 THEN (IF x.m = 0 THEN NaN ELSE IF x.m < 0 THEN NegInf ELSE PosInf)
  ELSE RoundQuot(IF Sign(x) * Sign(y) < 0 THEN -1 ELSE 1, Abs(x.m), Abs(y.m), x.e - y.e)

\* Math.sqrt(x)
RECURSIVE SqrtScaled(_, _)
SqrtScaled(M, E) ==
  \* M * 2^E with E even; widen M until its root carries Precision + 2 bits
  IF BitLen(M) < 2 * Precision + 4 THEN SqrtScaled(4 * M, E - 2)
  ELSE LET r == ISqrt(M)
       IN  Round(1, r, E \div 2, r * r # M)

FSqrt(x) ==
  IF IsNaN(x) THEN NaN
  ELSE IF x.m < 0 THEN NaN
  ELSE IF IsInf(x) THEN PosInf
  ELSE IF x.m = 0 THEN x
  ELSE IF x.e % 2 = 0 THEN SqrtScaled(x.m, x.e)
  ELSE SqrtScaled(2 * x.m, x.e - 1)

(***************************************************************************)
(* Text: a sequence of character codes.                                    *)
(***************************************************************************)
LowerLetters == <<"a","b","c","d","e","f","g","h","i","j","k","l","m",
                  "n","o","p","q","r","s","t","u","v","w","x","y","z">>

UpperLetters == <<"A","B","C","D","E","F","G","H","I","J","K","L","M",
                  "N","O","P","Q","R","S","T","U","V","W","X","Y","Z">>

DigitChars == <<"0","1","2","3","4","5","6","7","8","9">>

\* the code of a one-character string
CharCode(c) ==
  IF \E i \in 1..26 : LowerLetters[i] = c
    THEN 96 + (CHOOSE i \in 1..26 : LowerLetters[i] = c)
  ELSE IF \E i \in 1..26 : UpperLetters[i] = c
    THEN 64 + (CHOOSE i \in 1..26 : UpperLetters[i] = c)
  ELSE IF \E i \in 1..10 : DigitChars[i] = c
    THEN 47 + (CHOOSE i \in 1..10 : DigitChars[i] = c)
  ELSE CASE c = " "  -> 32
         [] c = "\n" -> 10
         [] c = "\r" -> 13
         [] c = "\t" -> 9
         [] c = "."  -> 46
         [] c = "-"  -> 45
         [] c = "+"  -> 43
         [] c = "/"  -> 47
         [] c = "_"  -> 95

\* the text spelled by a sequence of one-character strings
Txt(cs) == [i \in 1..Len(cs) |-> CharCode(cs[i])]

RECURSIVE Concat(_)
Concat(ss) == IF ss = <<>> THEN <<>> ELSE Head(ss) \o Concat(Tail(ss))

\* WhiteSpace and LineTerminator code units below 256 (String.prototype.trim, \s)
IsWhiteSpace(c) == c \in {9, 10, 11, 12, 13, 32, 160}

IsDigit(c) == c >= 48 /\ c <= 57

RECURSIVE TrimStart(_)
TrimStart(s) ==
  IF s # <<>> /\ IsWhiteSpace(Head(s)) THEN TrimStart(Tail(s)) ELSE s

RECURSIVE TrimEnd(_)
TrimEnd(s) ==
  IF s # <<>> /\ IsWhiteSpace(s[Len(s)]) THEN TrimEnd(SubSeq(s, 1, Len(s) - 1)) ELSE s

\* String.prototype.trim
Trim(s) == TrimEnd(TrimStart(s))

\* String.prototype.toLowerCase on code units below 128
ToLowerCase(s) == [i \in 1..Len(s) |-> IF s[i] >= 65 /\ s[i] <= 90 THEN s[i] + 32 ELSE s[i]]

\* String.prototype.startsWith
StartsWith(s, p) == Len(s) >= Len(p) /\ SubSeq(s, 1, Len(p)) = p

\* String.prototype.endsWith
EndsWith(s, p) == Len(s) >= Len(p) /\ SubSeq(s, Len(s) - Len(p) + 1, Len(s)) = p

\* String.prototype.includes
Includes(s, p) == \E i \in 1..(Len(s) - Len(p) + 1) : SubSeq(s, i, i + Len(p) - 1) = p

\* String.prototype.split(sep) for a one-character separator
SplitChar(s, sep) ==
  LET at     == {i \in 1..Len(s) : s[i] = sep}
      n      == Cardinality(at)
      Pos(k) == CHOOSE i \in at : Cardinality({j \in at : j < i}) = k - 1
  IN  [k \in 1..(n + 1) |->
         SubSeq(s, IF k = 1 THEN 1 ELSE Pos(k - 1) + 1, IF k = n + 1 THEN Len(s) ELSE Pos(k) - 1)]

\* String.prototype.split(/\s+/)
RECURSIVE SplitWhiteSpace(_, _)
SplitWhiteSpace(s, cur) ==
  IF s = <<>> THEN <<cur>>
  ELSE IF IsWhiteSpace(Head(s)) THEN <<cur>> \o SplitWhiteSpace(TrimStart(s), <<>>)
  ELSE SplitWhiteSpace(Tail(s), Append(cur, Head(s)))

\* the longest prefix of decimal digits
RECURSIVE DigitPrefix(_)
DigitPrefix(s) ==
  IF s # <<>> /\ IsDigit(Head(s)) THEN <<Head(s)>> \o DigitPrefix(Tail(s)) ELSE <<>>

RECURSIVE DigitsValue(_, _)
DigitsValue(ds, acc) ==
  IF ds = <<>> THEN acc ELSE DigitsValue(Tail(ds), 10 * acc + (Head(ds) - 48))

\* largest decimal exponent that a finite double can carry
MaxDecimalExponent == 308

\* the value s * n * 10^x of a decimal literal with the digits n
DecimalValue(s, n, x) ==
  IF n = 0 THEN Finite(1, 0, 0)
  ELSE IF x > MaxDecimalExponent THEN (IF s < 0 THEN NegInf ELSE PosInf)
  ELSE IF x >= 0 THEN Round(s, n * Pow(10, x), 0, FALSE)
  ELSE RoundQuot(s, n, Pow(10, -x), 0)

\* the digits after an optional sign, as a signed integer
SignedDigits(u) ==
  (IF u # <<>> /\ u[1] = 45 THEN -1 ELSE 1)
    * DigitsValue(DigitPrefix(IF u # <<>> /\ u[1] \in {43, 45} THEN Tail(u) ELSE u), 0)

\* the exponent part at the head of u, 0 when there is none
ExponentPart(u) == IF u # <<>> /\ u[1] \in {69, 101} THEN SignedDigits(Tail(u)) ELSE 0

\* the literal with integer digits ip and fraction digits fp, rest being the
\* text from the fraction digits on
ParseDigits(s, ip, fp, rest) ==
  IF ip = <<>> /\ fp = <<>> THEN NaN
  ELSE DecimalValue(s, DigitsValue(ip \o fp, 0),
                    ExponentPart(SubSeq(rest, Len(fp) + 1, Len(rest))) - Len(fp))

\* the literal with integer digits ip, u1 being the text after them
ParseFraction(s, ip, u1) ==
  ParseDigits(s, ip,
              IF u1 # <<>> /\ u1[1] = 46 THEN DigitPrefix(Tail(u1)) ELSE <<>>,
              IF u1 # <<>> /\ u1[1] = 46 THEN Tail(u1) ELSE u1)

\* the literal after its sign
ParseUnsigned(s, u) ==
  IF StartsWith(u, Txt(<<"I","n","f","i","n","i","t","y">>))
  THEN (IF s < 0 THEN NegInf ELSE PosInf)
  ELSE ParseFraction(s, DigitPrefix(u), SubSeq(u, Len(DigitPrefix(u)) + 1, Len(u)))

\* the literal at the head of t
ParseSigned(t) ==
  ParseUnsigned(IF t # <<>> /\ t[1] = 45 THEN -1 ELSE 1,
                IF t # <<>> /\ t[1] \in {43, 45} THEN Tail(t) ELSE t)

\* parseFloat: leading white space is skipped, the longest prefix that is a
\* decimal literal (sign, digits, fraction, exponent, or Infinity) is
\* converted, and NaN is returned when there is none.
ParseFloat(str) == ParseSigned(TrimStart(str))

(***************************************************************************)
(* stlParser: the text variant.                                            *)
(* A vertex is <<x, y, z>>, a triangle is [a |-> v, b |-> v, c |-> v].     *)
(***************************************************************************)
\* an unset property of currentTriangle
Undefined == <<>>

EmptyTriangle == [a |-> Undefined, b |-> Undefined, c |-> Undefined]

KwVertex == Txt(<<"v","e","r","t","e","x">>)

KwEndfacet == Txt(<<"e","n","d","f","a","c","e","t">>)

\* the locals of parseASCIISTL before the first line
AsciiStart == [triangles |-> <<>>, currentTriangle |-> EmptyTriangle, vertexIndex |-> 0]

\* the triangle pushed without the reset of currentTriangle and vertexIndex
AsciiStoreNoReset(st, cur) ==
  IF st.vertexIndex + 1 = 3 /\ cur.a # Undefined /\ cur.b # Undefined /\ cur.c # Undefined
  THEN [triangles       |-> Append(st.triangles, [a |-> cur.a, b |-> cur.b, c |-> cur.c]),
        currentTriangle |-> cur,
        vertexIndex     |-> st.vertexIndex + 1]
  ELSE [st EXCEPT !.currentTriangle = cur, !.vertexIndex = st.vertexIndex + 1]

\* the vertex stored in currentTriangle, and the triangle pushed when complete
AsciiStore(st, cur) ==
  IF st.vertexIndex + 1 = 3 /\ cur.a # Undefined /\ cur.b # Undefined /\ cur.c # Undefined
  THEN [triangles       |-> Append(st.triangles, [a |-> cur.a, b |-> cur.b, c |-> cur.c]),
        currentTriangle |-> EmptyTriangle,
        vertexIndex     |-> 0]
  ELSE [st EXCEPT !.currentTriangle = cur, !.vertexIndex = st.vertexIndex + 1]

\* the vertex branch for the parsed x, y and z
AsciiVertex(st, v) ==
  IF IsNaN(v[1]) \/ IsNaN(v[2]) \/ IsNaN(v[3]) THEN st
  ELSE AsciiStore(st, IF st.vertexIndex = 0 THEN [st.currentTriangle EXCEPT !.a = v]
                      ELSE IF st.vertexIndex = 1 THEN [st.currentTriangle EXCEPT !.b = v]
                      ELSE IF st.vertexIndex = 2 THEN [st.currentTriangle EXCEPT !.c = v]
                      ELSE st.currentTriangle)

\* the vertex line taken only when it has exactly 3 tokens after the keyword
AsciiPartsExactly(st, parts) ==
  IF Len(parts) = 4
  THEN AsciiVertex(st, [i \in 1..3 |-> ParseFloat(parts[i + 1])])
  ELSE st

\* lines 243-263: the vertex line split into parts
AsciiParts(st, parts) ==
  IF Len(parts) >= 4
  THEN AsciiVertex(st, [i \in 1..3 |-> ParseFloat(parts[i + 1])])
  ELSE st

\* the loop body with the endfacet branch left out: a partial facet stays pending
AsciiTrimmedNoReset(st, trimmed) ==
  IF StartsWith(trimmed, KwVertex) THEN AsciiParts(st, SplitWhiteSpace(trimmed, <<>>))
  ELSE st

\* the body of the loop over the lines, for the trimmed line
AsciiTrimmed(st, trimmed) ==
  IF StartsWith(trimmed, KwVertex) THEN AsciiParts(st, SplitWhiteSpace(trimmed, <<>>))
  ELSE IF StartsWith(trimmed, KwEndfacet)
  THEN [st EXCEPT !.currentTriangle = EmptyTriangle, !.vertexIndex = 0]
  ELSE st

\* the body of the loop over the lines
AsciiLine(st, line) == AsciiTrimmed(st, Trim(line))

RECURSIVE AsciiLines(_, _)
AsciiLines(st, lines) ==
  IF lines = <<>> THEN st ELSE AsciiLines(AsciiLine(st, Head(lines)), Tail(lines))

\* parseASCIISTL(content)
parseASCIISTL(content) == AsciiLines(AsciiStart, SplitChar(content, 10)).triangles

(***************************************************************************)
(* stlParser: the binary variant.  DataView reads throw a RangeError when  *)
(* they reach past the end of the buffer; a call that threw is the record  *)
(* [threw |-> TRUE, ...].                                                   *)
(***************************************************************************)
\* the byte at a 0-based offset
ByteAt(buf, offset) == buf[offset + 1]

\* whether n bytes can be read at offset
InRange(buf, offset, n) == offset >= 0 /\ offset + n <= Len(buf)

\* the 4 bytes at offset, least significant first
Word(buf, offset, littleEndian) ==
  IF littleEndian
  THEN <<ByteAt(buf, offset), ByteAt(buf, offset + 1), ByteAt(buf, offset + 2), ByteAt(buf, offset + 3)>>
  ELSE <<ByteAt(buf, offset + 3), ByteAt(buf, offset + 2), ByteAt(buf, offset + 1), ByteAt(buf, offset)>>

\* DataView.getUint32 (the buffers of the model keep the count below 2^31)
getUint32(buf, offset, littleEndian) ==
  LET w == Word(buf, offset, littleEndian)
  IN  w[1] + 256 * w[2] + 65536 * w[3] + 16777216 * w[4]

\* the value of the IEEE 754 binary32 with the bytes w, least significant first
Binary32Value(w) ==
  LET s    == IF w[4] >= 128 THEN -1 ELSE 1
      ex   == (w[4] % 128) * 2 + (w[3] \div 128)
      frac == (w[3] % 128) * 65536 + w[2] * 256 + w[1]
  IN  IF ex = 255 THEN (IF frac # 0 THEN NaN ELSE IF s < 0 THEN NegInf ELSE PosInf)
      ELSE IF ex = 0 THEN Round(s, frac, -149, FALSE)
      ELSE Round(s, 8388608 + frac, ex - 150, FALSE)

\* getFloat32 with the byte order flag dropped: the bytes are read big-endian
getFloat32BigEndian(buf, offset, littleEndian) == Binary32Value(Word(buf, offset, ~littleEndian))

\* DataView.getFloat32
getFloat32(buf, offset, littleEndian) == Binary32Value(Word(buf, offset, littleEndian))

\* the three floats of one vertex
ReadVertex(buf, offset) ==
  <<getFloat32(buf, offset, TRUE), getFloat32(buf, offset + 4, TRUE), getFloat32(buf, offset + 8, TRUE)>>

\* the record loop with the normal vector not skipped: the vertices are read
\* 12 bytes early
BinaryRecordNoNormal(buf, st) ==
  IF ~InRange(buf, st.offset + 12, 36)
  THEN [st EXCEPT !.threw = TRUE]
  ELSE [offset    |-> st.offset + 50,
        i         |-> st.i + 1,
        triangles |-> Append(st.triangles,
                             [a |-> ReadVertex(buf, st.offset),
                              b |-> ReadVertex(buf, st.offset + 12),
                              c |-> ReadVertex(buf, st.offset + 24)]),
        threw     |-> FALSE]

\* one pass of the record loop, from the locals [offset, i, triangles, threw]
BinaryRecord(buf, st) ==
  LET o1 == st.offset + 12
  IN  IF ~InRange(buf, o1, 36)
      THEN [st EXCEPT !.threw = TRUE]
      ELSE [offset    |-> o1 + 36 + 2,
            i         |-> st.i + 1,
            triangles |-> Append(st.triangles,
                                 [a |-> ReadVertex(buf, o1),
                                  b |-> ReadVertex(buf, o1 + 12),
                                  c |-> ReadVertex(buf, o1 + 24)]),
            threw     |-> FALSE]

RECURSIVE BinaryLoop(_, _, _)
BinaryLoop(buf, numTriangles, st) ==
  IF st.threw \/ st.i >= numTriangles THEN st
  ELSE BinaryLoop(buf, numTriangles, BinaryRecord(buf, st))

\* parseBinarySTL(buffer): [threw, triangles]
parseBinarySTL(buf) ==
  IF ~InRange(buf, 80, 4)
  THEN [threw |-> TRUE, triangles |-> <<>>]
  ELSE LET st == BinaryLoop(buf, getUint32(buf, 80, TRUE),
                            [offset |-> 84, i |-> 0, triangles |-> <<>>, threw |-> FALSE])
       IN  [threw |-> st.threw, triangles |-> IF st.threw THEN <<>> ELSE st.triangles]

\* the detection without the limit of 100 bytes: the whole buffer is searched
isASCIISTLWholeBuffer(buf) ==
  /\ StartsWith(ToLowerCase(Trim(buf)), Txt(<<"s","o","l","i","d">>))
  /\ ~Includes(buf, <<0>>)
  /\ Includes(buf, <<10>>)

\* isASCIISTL(buffer)
isASCIISTL(buf) ==
  LET text == SubSeq(buf, 1, Min(100, Len(buf)))
  IN  /\ StartsWith(ToLowerCase(Trim(text)), Txt(<<"s","o","l","i","d">>))
      /\ ~Includes(text, <<0>>)
      /\ Includes(text, <<10>>)

(***************************************************************************)
(* geometry: unit conversion and the exact triangle area.                  *)
(***************************************************************************)
\* the double nearest to the decimal literal n / d
Dec(n, d) == RoundQuot(1, n, d, 0)

STLUnits == {"mm", "cm", "inch"}

conversions == [mm |-> Num(1), cm |-> Num(10), inch |-> Dec(254, 10)]

\* the conversion with the inch taken as 2.54, its length in centimeters
toMillimetersInchAsCm(value, unit) ==
  FMul(value, [mm |-> Num(1), cm |-> Num(10), inch |-> Dec(254, 100)][unit])

\* toMillimeters(value, unit)
toMillimeters(value, unit) == FMul(value, conversions[unit])

\* mm2ToDm2(mm2)
mm2ToDm2(mm2) == FDivInt(mm2, 10000)

\* the area with the second edge taken from the origin instead of from a
calculateTriangleAreaFromOrigin(triangle) ==
  LET ax == triangle.a[1]  ay == triangle.a[2]  az == triangle.a[3]
      bx == triangle.b[1]  by == triangle.b[2]  bz == triangle.b[3]
      cx == triangle.c[1]  cy == triangle.c[2]  cz == triangle.c[3]
      ba == <<FSub(bx, ax), FSub(by, ay), FSub(bz, az)>>
      ca == <<cx, cy, cz>>
      crossX == FSub(FMul(ba[2], ca[3]), FMul(ba[3], ca[2]))
      crossY == FSub(FMul(ba[3], ca[1]), FMul(ba[1], ca[3]))
      crossZ == FSub(FMul(ba[1], ca[2]), FMul(ba[2], ca[1]))
      magnitude == FSqrt(FAdd(FAdd(FMul(crossX, crossX), FMul(crossY, crossY)),
                              FMul(crossZ, crossZ)))
  IN  FMul(Dec(1, 2), magnitude)

\* calculateTriangleArea(triangle)
calculateTriangleArea(triangle) ==
  LET ax == triangle.a[1]  ay == triangle.a[2]  az == triangle.a[3]
      bx == triangle.b[1]  by == triangle.b[2]  bz == triangle.b[3]
      cx == triangle.c[1]  cy == triangle.c[2]  cz == triangle.c[3]
      ba == <<FSub(bx, ax), FSub(by, ay), FSub(bz, az)>>
      ca == <<FSub(cx, ax), FSub(cy, ay), FSub(cz, az)>>
      crossX == FSub(FMul(ba[2], ca[3]), FMul(ba[3], ca[2]))
      crossY == FSub(FMul(ba[3], ca[1]), FMul(ba[1], ca[3]))
      crossZ == FSub(FMul(ba[1], ca[2]), FMul(ba[2], ca[1]))
      magnitude == FSqrt(FAdd(FAdd(FMul(crossX, crossX), FMul(crossY, crossY)),
                              FMul(crossZ, crossZ)))
  IN  FMul(Dec(1, 2), magnitude)

\* the vertex with its three coordinates converted
ConvertVertex(v, unit) ==
  <<toMillimeters(v[1], unit), toMillimeters(v[2], unit), toMillimeters(v[3], unit)>>

RECURSIVE TotalAreaMm2(_, _, _)
TotalAreaMm2(triangles, unit, totalArea_mm2) ==
  IF triangles = <<>> THEN totalArea_mm2
  ELSE LET t == Head(triangles)
           convertedTriangle == [a |-> ConvertVertex(t.a, unit),
                                 b |-> ConvertVertex(t.b, unit),
                                 c |-> ConvertVertex(t.c, unit)]
       IN  TotalAreaMm2(Tail(triangles), unit,
                        FAdd(totalArea_mm2, calculateTriangleArea(convertedTriangle)))

\* calculateSurfaceArea(triangles, unit)
calculateSurfaceArea(triangles, unit) == mm2ToDm2(TotalAreaMm2(triangles, unit, Num(0)))

(***************************************************************************)
(* platingFormulas.                                                        *)
(***************************************************************************)
Materials == {"Copper", "Nickel"}

FARADAY_CONSTANTS == [Copper |-> Dec(2705, 10), Nickel |-> Dec(2926, 10)]

\* (K * thickness_um) / (currentDensity * efficiency)
calculateTimeFromThickness(thickness_um, currentDensity, efficiency, material) ==
  FDiv(FMul(FARADAY_CONSTANTS[material], thickness_um), FMul(currentDensity, efficiency))

\* the thickness with the efficiency left out
calculateThicknessFromTimeNoEfficiency(time_seconds, currentDensity, efficiency, material) ==
  FDiv(FMul(time_seconds, currentDensity), FARADAY_CONSTANTS[material])

\* (time_seconds * currentDensity * efficiency) / K
calculateThicknessFromTime(time_seconds, currentDensity, efficiency, material) ==
  FDiv(FMul(FMul(time_seconds, currentDensity), efficiency), FARADAY_CONSTANTS[material])

(***************************************************************************)
(* formatTime and parseTime.  The numbers of these two functions are whole *)
(* numbers, NaN, or a number that is not whole (a fraction, an exponent,   *)
(* Infinity).  A whole number is a double when it has at most SafeBits     *)
(* significant bits: SafeBits stands for the 53 bits of a double, and the  *)
(* arithmetic below rounds to it as the arithmetic of doubles does.        *)
(***************************************************************************)
SafeBits == 13

\* the whole number >= 0 nearest to n that is a double, ties to even
RoundWhole(n) ==
  LET k == BitLen(n) - SafeBits
  IN  IF k <= 0 THEN n
      ELSE LET q    == n \div Pow2(k)
               r    == n % Pow2(k)
               half == Pow2(k - 1)
           IN  (IF r > half \/ (r = half /\ q % 2 = 1) THEN q + 1 ELSE q) * Pow2(k)

Whole(n) == [k |-> "whole", n |-> IF n < 0 THEN -RoundWhole(-n) ELSE RoundWhole(n)]

NotNumber == [k |-> "nan", n |-> 0]

Fraction == [k |-> "other", n |-> 0]

Colon == 58

\* Math.floor(n / d) for whole n >= 0, d > 0: the quotient, taken with f
\* fraction bits and a sticky last bit, is rounded to a double, then floored
RECURSIVE FloorQuotient(_, _, _)
FloorQuotient(n, d, f) ==
  IF n = 0 THEN 0
  ELSE IF BitLen((n * Pow2(f)) \div d) < SafeBits + 2 THEN FloorQuotient(n, d, f + 1)
  ELSE LET q == (n * Pow2(f)) \div d
           r == (n * Pow2(f)) % d
       IN  RoundWhole(IF r # 0 /\ q % 2 = 0 THEN q + 1 ELSE q) \div Pow2(f)

\* Number.prototype.toString of a whole number >= 0
RECURSIVE NumberToString(_)
NumberToString(n) == IF n < 10 THEN <<48 + n>> ELSE NumberToString(n \div 10) \o <<48 + (n % 10)>>

\* String.prototype.padStart(2, '0')
PadStart2(s) == IF Len(s) >= 2 THEN s ELSE IF Len(s) = 1 THEN <<48>> \o s ELSE <<48, 48>>

\* formatTime(seconds) with no padding of the fields
formatTimeUnpadded(seconds) ==
  NumberToString(FloorQuotient(seconds, 3600, 0)) \o <<Colon>>
  \o NumberToString(FloorQuotient(seconds % 3600, 60, 0)) \o <<Colon>>
  \o NumberToString(seconds % 60)

\* formatTime(seconds) for a whole number of seconds >= 0
formatTime(seconds) ==
  LET hours   == FloorQuotient(seconds, 3600, 0)
      minutes == FloorQuotient(seconds % 3600, 60, 0)
      secs    == seconds % 60
  IN  PadStart2(NumberToString(hours)) \o <<Colon>> \o PadStart2(NumberToString(minutes))
      \o <<Colon>> \o PadStart2(NumberToString(secs))

\* the characters of a decimal literal and of Infinity
DecimalAlphabet ==
  (48..57) \cup {43, 45, 46, 69, 101} \cup {73, 110, 102, 105, 116, 121}

\* 0x, 0o, 0b in either case
HasRadixPrefix(t) ==
  Len(t) >= 2 /\ t[1] = 48 /\ t[2] \in {88, 120, 79, 111, 66, 98}

\* Number(str)
StringToNumber(str) ==
  LET t      == Trim(str)
      signed == t # <<>> /\ t[1] \in {43, 45}
      u      == IF signed THEN Tail(t) ELSE t
  IN  IF t = <<>> THEN Whole(0)
      ELSE IF u # <<>> /\ DigitPrefix(u) = u
        THEN Whole((IF t[1] = 45 THEN -1 ELSE 1) * DigitsValue(u, 0))
      ELSE IF HasRadixPrefix(t) THEN Fraction
      ELSE IF \E i \in 1..Len(t) : t[i] \notin DecimalAlphabet THEN NotNumber
      ELSE Fraction

\* x * n for a whole number n
TimesWhole(x, n) ==
  IF x.k = "whole" THEN Whole(x.n * n) ELSE x

\* x + y
PlusNumber(x, y) ==
  IF x.k = "nan" \/ y.k = "nan" THEN NotNumber
  ELSE IF x.k = "other" \/ y.k = "other" THEN Fraction
  ELSE Whole(x.n + y.n)

\* parseTime(timeString)
parseTime(timeString) ==
  LET fields == SplitChar(timeString, Colon)
      parts  == [i \in 1..Len(fields) |-> StringToNumber(fields[i])]
  IN  IF Len(parts) = 3
        THEN PlusNumber(PlusNumber(TimesWhole(parts[1], 3600), TimesWhole(parts[2], 60)), parts[3])
      ELSE IF Len(parts) = 2 THEN PlusNumber(TimesWhole(parts[1], 60), parts[2])
      ELSE IF Len(parts) = 1 THEN parts[1]
      ELSE Whole(0)

(***************************************************************************)
(* PlatingCalculator.  The state of the component is a record c of its    *)
(* useState values and of the totalSurfaceArea_dm2 it is given.  A number  *)
(* input holds the text that was typed, or the text x.toString() of a      *)
(* number x; parseFloat of the latter is x (toString gives the shortest    *)
(* decimal that reads back as x).  A memo is the value of a useMemo and    *)
(* the calls of the formulas that were made to compute it.                 *)
(***************************************************************************)
Typed(text) == [kind |-> "typed", text |-> text, value |-> Num(0)]

NumberText(x) == [kind |-> "toString", text |-> <<>>, value |-> x]

\* parseFloat(input)
InputNumber(input) == IF input.kind = "typed" THEN ParseFloat(input.text) ELSE input.value

\* the condition: input && ...
Truthy(input) == input.kind = "toString" \/ input.text # <<>>

\* x || 0
OrZero(x) == IF IsNaN(x) THEN Num(0) ELSE x

\* x > 0
Positive(x) == ~IsNaN(x) /\ x.m > 0

NullValue == [k |-> "null", m |-> 0, e |-> 0]

Memo(value, calls) == [value |-> value, calls |-> calls]

Call(fn, density, efficiency) == [fn |-> fn, density |-> density, efficiency |-> efficiency]

\* parseTime(text) as a double
ParsedSeconds(text) ==
  LET w == parseTime(text)
  IN  IF w.k = "whole" THEN Num(w.n) ELSE NaN

\* (60 * currentDensity * efficiency) / K
calculateDepositionRate(currentDensity, efficiency, material) ==
  FDiv(FMul(FMulInt(currentDensity, 60), efficiency), FARADAY_CONSTANTS[material])

\* surfaceArea_dm2 * currentDensity
calculateTotalCurrent(surfaceArea_dm2, currentDensity) == FMul(surfaceArea_dm2, currentDensity)

currentDensityNum(c) == OrZero(InputNumber(c.currentDensity))

efficiencyDecimal(c) == Dec(c.efficiency, 100)

stage1DensityNum(c) == OrZero(InputNumber(c.stage1Density))

stage2DensityNum(c) == OrZero(InputNumber(c.stage2Density))

stage3DensityNum(c) == OrZero(InputNumber(c.stage3Density))

\* a stage of a three-stage job: the thickness its time gives at its density
StageThickness(c, time, density) ==
  IF c.jobType = "three-stage" /\ time # <<>> /\ Positive(density) /\ Positive(efficiencyDecimal(c))
     /\ Positive(ParsedSeconds(time))
  THEN Memo(calculateThicknessFromTime(ParsedSeconds(time), density, efficiencyDecimal(c), c.material),
            {Call("calculateThicknessFromTime", density, efficiencyDecimal(c))})
  ELSE Memo(Num(0), {})

thicknessAfterStage1(c) == StageThickness(c, c.stage1Time, stage1DensityNum(c))

thicknessAfterStage2(c) ==
  LET stage2 == StageThickness(c, c.stage2Time, stage2DensityNum(c))
  IN  IF stage2.calls # {}
      THEN Memo(FAdd(thicknessAfterStage1(c).value, stage2.value), stage2.calls)
      ELSE Memo(thicknessAfterStage1(c).value, {})

totalCurrent(c) ==
  IF Positive(c.totalSurfaceArea_dm2)
  THEN IF c.jobType = "single" /\ Positive(currentDensityNum(c))
         THEN Memo(calculateTotalCurrent(c.totalSurfaceArea_dm2, currentDensityNum(c)),
                   {Call("calculateTotalCurrent", currentDensityNum(c), Num(1))})
       ELSE IF c.jobType = "three-stage" /\ Positive(stage3DensityNum(c))
         THEN Memo(calculateTotalCurrent(c.totalSurfaceArea_dm2, stage3DensityNum(c)),
                   {Call("calculateTotalCurrent", stage3DensityNum(c), Num(1))})
       ELSE Memo(Num(0), {})
  ELSE Memo(Num(0), {})

\* the deposition rate computed whatever the density is
depositionRateUnguarded(c) ==
  LET density == IF c.jobType = "single" THEN currentDensityNum(c) ELSE stage3DensityNum(c)
  IN  Memo(calculateDepositionRate(density, efficiencyDecimal(c), c.material),
           {Call("calculateDepositionRate", density, efficiencyDecimal(c))})

depositionRate(c) ==
  LET density == IF c.jobType = "single" THEN currentDensityNum(c) ELSE stage3DensityNum(c)
  IN  IF Positive(density) /\ Positive(efficiencyDecimal(c))
      THEN Memo(calculateDepositionRate(density, efficiencyDecimal(c), c.material),
                {Call("calculateDepositionRate", density, efficiencyDecimal(c))})
      ELSE Memo(Num(0), {})

\* the thickness of an input in micrometers: 1 mm = 1000 um
InMicrometers(c, input) ==
  IF IsNaN(InputNumber(input)) THEN Num(0)
  ELSE IF c.thicknessUnit = "mm" THEN FMulInt(InputNumber(input), 1000)
  ELSE InputNumber(input)

thicknessInMicrometers(c) == InMicrometers(c, c.thicknessInput)

stage3ThicknessInMicrometers(c) ==
  InMicrometers(c, IF c.jobType = "single" THEN c.thicknessInput ELSE c.stage3ThicknessInput)

\* the time of stage 3 computed for the whole target
calculatedTimeOfTarget(c) ==
  IF c.jobType = "single"
  THEN IF c.mode = "thickness-to-time" /\ Truthy(c.thicknessInput)
          /\ Positive(thicknessInMicrometers(c)) /\ Positive(currentDensityNum(c))
          /\ Positive(efficiencyDecimal(c))
       THEN Memo(calculateTimeFromThickness(thicknessInMicrometers(c), currentDensityNum(c),
                                            efficiencyDecimal(c), c.material),
                 {Call("calculateTimeFromThickness", currentDensityNum(c), efficiencyDecimal(c))})
       ELSE Memo(NullValue, {})
  ELSE IF c.stage3Mode = "thickness-to-time" /\ Truthy(c.stage3ThicknessInput)
          /\ Positive(stage3ThicknessInMicrometers(c))
          /\ Positive(stage3DensityNum(c)) /\ Positive(efficiencyDecimal(c))
       THEN Memo(calculateTimeFromThickness(stage3ThicknessInMicrometers(c), stage3DensityNum(c),
                                            efficiencyDecimal(c), c.material),
                 {Call("calculateTimeFromThickness", stage3DensityNum(c), efficiencyDecimal(c))})
       ELSE Memo(NullValue, {})

calculatedTime(c) ==
  IF c.jobType = "single"
  THEN IF c.mode = "thickness-to-time" /\ Truthy(c.thicknessInput)
          /\ Positive(thicknessInMicrometers(c)) /\ Positive(currentDensityNum(c))
          /\ Positive(efficiencyDecimal(c))
       THEN Memo(calculateTimeFromThickness(thicknessInMicrometers(c), currentDensityNum(c),
                                            efficiencyDecimal(c), c.material),
                 {Call("calculateTimeFromThickness", currentDensityNum(c), efficiencyDecimal(c))})
       ELSE Memo(NullValue, {})
  ELSE IF c.stage3Mode = "thickness-to-time" /\ Truthy(c.stage3ThicknessInput)
          /\ Positive(FSub(stage3ThicknessInMicrometers(c), thicknessAfterStage2(c).value))
          /\ Positive(stage3DensityNum(c)) /\ Positive(efficiencyDecimal(c))
       THEN Memo(calculateTimeFromThickness(
                   FSub(stage3ThicknessInMicrometers(c), thicknessAfterStage2(c).value),
                   stage3DensityNum(c), efficiencyDecimal(c), c.material),
                 {Call("calculateTimeFromThickness", stage3DensityNum(c), efficiencyDecimal(c))})
       ELSE Memo(NullValue, {})

calculatedThickness(c) ==
  IF c.jobType = "single"
  THEN IF c.mode = "time-to-thickness" /\ c.timeInput # <<>>
          /\ Positive(ParsedSeconds(c.timeInput)) /\ Positive(currentDensityNum(c))
          /\ Positive(efficiencyDecimal(c))
       THEN Memo(calculateThicknessFromTime(ParsedSeconds(c.timeInput), currentDensityNum(c),
                                            efficiencyDecimal(c), c.material),
                 {Call("calculateThicknessFromTime", currentDensityNum(c), efficiencyDecimal(c))})
       ELSE Memo(NullValue, {})
  ELSE IF c.stage3Mode = "time-to-thickness" /\ c.stage3TimeInput # <<>>
          /\ Positive(ParsedSeconds(c.stage3TimeInput)) /\ Positive(stage3DensityNum(c))
          /\ Positive(efficiencyDecimal(c))
       THEN Memo(FAdd(thicknessAfterStage2(c).value,
                      calculateThicknessFromTime(ParsedSeconds(c.stage3TimeInput), stage3DensityNum(c),
                                                 efficiencyDecimal(c), c.material)),
                 {Call("calculateThicknessFromTime", stage3DensityNum(c), efficiencyDecimal(c))})
       ELSE Memo(NullValue, {})

\* the values of one rendering
Memos(c) ==
  {thicknessAfterStage1(c), thicknessAfterStage2(c), totalCurrent(c), depositionRate(c),
   calculatedTime(c), calculatedThickness(c)}

\* the value of a number input after the unit is changed to newUnit
ConvertedInput(c, input, newUnit) ==
  LET currentValue == OrZero(InputNumber(input))
  IN  IF newUnit = "mm" /\ c.thicknessUnit = "um" THEN NumberText(FDivInt(currentValue, 1000))
      ELSE IF newUnit = "um" /\ c.thicknessUnit = "mm" THEN NumberText(FMulInt(currentValue, 1000))
      ELSE input

(***************************************************************************)
(* threeMFParser.  JSZip and DOMParser are libraries: an archive is the    *)
(* list of its entries, a document is the tree the parser reads:           *)
(*   doc    = [model |-> BOOLEAN, unit |-> attr, objects |-> Seq(object)]  *)
(*   object = [mesh, hasVertices, hasTriangles |-> BOOLEAN,                *)
(*             vertices |-> Seq([x, y, z]), triangles |-> Seq([v1, v2, v3]),*)
(*             transform |-> attr]                                         *)
(* An attribute is its text, or Null when the element does not carry it.   *)
(* The number[] of a vertex is a JavaScript object: triangles hold         *)
(* references into heap, the sequence of the arrays allocated so far.      *)
(***************************************************************************)
Null == <<-1>>

\* getAttribute(name) || fallback
AttrOr(attr, fallback) == IF attr = Null \/ attr = <<>> THEN fallback ELSE attr

\* parseInt(str, 10): [nan, n]
ParseInt(str) ==
  LET t   == TrimStart(str)
      neg == t # <<>> /\ t[1] = 45
      u   == IF t # <<>> /\ t[1] \in {43, 45} THEN Tail(t) ELSE t
      ds  == DigitPrefix(u)
  IN  IF ds = <<>> THEN [nan |-> TRUE, n |-> 0]
      ELSE [nan |-> FALSE, n |-> (IF neg THEN -1 ELSE 1) * DigitsValue(ds, 0)]

\* applyTransform(point, matrix)
applyTransform(point, matrix) ==
  IF Len(matrix) # 12 THEN point
  ELSE LET x == point[1]  y == point[2]  z == point[3]
           Row(r) == FAdd(FAdd(FAdd(FMul(matrix[4 * r + 1], x), FMul(matrix[4 * r + 2], y)),
                               FMul(matrix[4 * r + 3], z)),
                          matrix[4 * r + 4])
       IN  <<Row(0), Row(1), Row(2)>>

\* isZipFile(buffer)
isZipFile(buf) == Len(buf) >= 2 /\ buf[1] = 80 /\ buf[2] = 75

PathCanonical == Txt(<<"3","D","/","3","d","m","o","d","e","l",".","m","o","d","e","l">>)

PathBare == Txt(<<"3","d","m","o","d","e","l",".","m","o","d","e","l">>)

ExtModel == Txt(<<".","m","o","d","e","l">>)

ExtXml == Txt(<<".","x","m","l">>)

WordModel == Txt(<<"m","o","d","e","l">>)

\* zip.file(path): the index of the first entry of that name, 0 for null
ZipFile(entries, path) ==
  IF \E i \in 1..Len(entries) : entries[i].name = path
  THEN CHOOSE i \in 1..Len(entries) :
         /\ entries[i].name = path
         /\ \A j \in 1..(i - 1) : entries[j].name # path
  ELSE 0

\* the extraction that takes the first entry named like a model before it
\* looks for the two preferred paths
extract3MFXMLFirstModel(file) ==
  IF ~isZipFile(file.bytes) THEN [threw |-> FALSE, doc |-> file.doc]
  ELSE IF ~file.zip.ok THEN [threw |-> TRUE, doc |-> file.doc]
  ELSE LET entries    == file.zip.entries
           allFiles   == [i \in 1..Len(entries) |-> entries[i].name]
           IsModel(n) == EndsWith(n, ExtModel) \/ (EndsWith(n, ExtXml) /\ Includes(n, WordModel))
           IsXml(n)   == EndsWith(n, ExtXml)
           modelFiles == SelectSeq(allFiles, IsModel)
           xmlFiles   == SelectSeq(allFiles, IsXml)
       IN  IF Len(modelFiles) > 0
             THEN [threw |-> FALSE, doc |-> entries[ZipFile(entries, modelFiles[1])].doc]
           ELSE IF Len(xmlFiles) > 0
             THEN [threw |-> FALSE, doc |-> entries[ZipFile(entries, xmlFiles[1])].doc]
           ELSE [threw |-> TRUE, doc |-> file.doc]

\* extract3MFXML(buffer): [threw, doc]; file.doc is what the buffer holds when
\* it is read as bare XML, file.zip what JSZip.loadAsync gives for it
extract3MFXML(file) ==
  IF ~isZipFile(file.bytes) THEN [threw |-> FALSE, doc |-> file.doc]
  ELSE IF ~file.zip.ok THEN [threw |-> TRUE, doc |-> file.doc]
  ELSE LET entries    == file.zip.entries
           allFiles   == [i \in 1..Len(entries) |-> entries[i].name]
           IsModel(n) == EndsWith(n, ExtModel) \/ (EndsWith(n, ExtXml) /\ Includes(n, WordModel))
           IsXml(n)   == EndsWith(n, ExtXml)
           modelFiles == SelectSeq(allFiles, IsModel)
           xmlFiles   == SelectSeq(allFiles, IsXml)
       IN  IF ZipFile(entries, PathCanonical) # 0
             THEN [threw |-> FALSE, doc |-> entries[ZipFile(entries, PathCanonical)].doc]
           ELSE IF ZipFile(entries, PathBare) # 0
             THEN [threw |-> FALSE, doc |-> entries[ZipFile(entries, PathBare)].doc]
           ELSE IF Len(modelFiles) > 0
             THEN [threw |-> FALSE, doc |-> entries[ZipFile(entries, modelFiles[1])].doc]
           ELSE IF Len(xmlFiles) > 0
             THEN [threw |-> FALSE, doc |-> entries[ZipFile(entries, xmlFiles[1])].doc]
           ELSE [threw |-> TRUE, doc |-> file.doc]

\* a value that is no number: a property every object literal inherits
NotANumber == [k |-> "obj", m |-> 0, e |-> 0]

\* the value of a property that does not exist
UndefinedValue == [k |-> "undefined", m |-> 0, e |-> 0]

\* the operand of * converted to a number
ToNumber(v) == IF v.k = "obj" THEN NaN ELSE v

\* unitScales[key]: the own properties of the table, then the inherited
\* properties of an object literal whose names are lower case
unitScales(key) ==
  CASE key = Txt(<<"m","i","l","l","i","m","e","t","e","r">>) -> Num(1)
    [] key = Txt(<<"m","i","c","r","o","n">>)                 -> Dec(1, 1000)
    [] key = Txt(<<"c","e","n","t","i","m","e","t","e","r">>) -> Num(10)
    [] key = Txt(<<"i","n","c","h">>)                         -> Dec(254, 10)
    [] key = Txt(<<"f","o","o","t">>)                         -> Dec(3048, 10)
    [] key = Txt(<<"m","e","t","e","r">>)                     -> Num(1000)
    [] key = Txt(<<"c","o","n","s","t","r","u","c","t","o","r">>) -> NotANumber
    [] key = Txt(<<"_","_","p","r","o","t","o","_","_">>)     -> NotANumber
    [] OTHER -> UndefinedValue

\* lines 96-109: the unit attribute of the model element as a scale factor
UnitScale(doc) ==
  LET unit  == IF doc.model THEN AttrOr(doc.unit, Txt(<<"m","i","l","l","i","m","e","t","e","r">>))
               ELSE Txt(<<"m","i","l","l","i","m","e","t","e","r">>)
      found == unitScales(ToLowerCase(unit))
  IN  IF found = UndefinedValue THEN Num(1) ELSE found

\* lines 128-133: one number[] per vertex element; [heap, vertices]
RECURSIVE ParseVertices(_, _, _)
ParseVertices(vertexElements, heap, vertices) ==
  IF vertexElements = <<>> THEN [heap |-> heap, vertices |-> vertices]
  ELSE LET v == Head(vertexElements)
           x == ParseFloat(AttrOr(v.x, <<48>>))
           y == ParseFloat(AttrOr(v.y, <<48>>))
           z == ParseFloat(AttrOr(v.z, <<48>>))
       IN  ParseVertices(Tail(vertexElements), Append(heap, <<x, y, z>>),
                         Append(vertices, Len(heap) + 1))

\* lines 141-155: the triangles whose three indices are in range
RECURSIVE PushTriangles(_, _, _)
PushTriangles(triangleElements, vertices, triangles) ==
  IF triangleElements = <<>> THEN triangles
  ELSE LET t  == Head(triangleElements)
           v1 == ParseInt(AttrOr(t.v1, <<48>>))
           v2 == ParseInt(AttrOr(t.v2, <<48>>))
           v3 == ParseInt(AttrOr(t.v3, <<48>>))
           InBounds(v) == ~v.nan /\ v.n >= 0 /\ v.n < Len(vertices)
       IN  PushTriangles(Tail(triangleElements), vertices,
             IF InBounds(v1) /\ InBounds(v2) /\ InBounds(v3)
             THEN Append(triangles, [a |-> vertices[v1.n + 1],
                                     b |-> vertices[v2.n + 1],
                                     c |-> vertices[v3.n + 1]])
             ELSE triangles)

\* transform.split(/\s+/).map(parseFloat).filter(v => !isNaN(v))
RECURSIVE MatrixValues(_)
MatrixValues(tokens) ==
  IF tokens = <<>> THEN <<>>
  ELSE LET v == ParseFloat(Head(tokens))
       IN  (IF IsNaN(v) THEN <<>> ELSE <<v>>) \o MatrixValues(Tail(tokens))

\* lines 165-170: triangles[i] for i from objectTriangleStart; triangles[i]
\* is undefined for i < 0 and reading its a throws a TypeError
RECURSIVE TransformFrom(_, _, _)
TransformFrom(st, i, matrixValues) ==
  IF i >= Len(st.triangles) THEN st
  ELSE IF i < 0 THEN [st EXCEPT !.threw = TRUE]
  ELSE LET t  == st.triangles[i + 1]
           h  == st.heap
           n  == Len(h)
           h3 == h \o <<applyTransform(h[t.a], matrixValues),
                        applyTransform(h[t.b], matrixValues),
                        applyTransform(h[t.c], matrixValues)>>
       IN  TransformFrom([st EXCEPT !.heap = h3,
                                    !.triangles[i + 1] = [a |-> n + 1, b |-> n + 2, c |-> n + 3]],
                         i + 1, matrixValues)

\* lines 157-172: the transform attribute applied to the triangles of the object
TransformObject(st, object, matrixValues) ==
  IF Len(matrixValues) = 12
  THEN TransformFrom(st, Len(st.triangles) - Len(object.triangles), matrixValues)
  ELSE st

\* lines 135-172: the triangles of a mesh whose vertices are parsed
ParseMesh(st, object, pv) ==
  IF ~object.hasTriangles THEN [st EXCEPT !.heap = pv.heap]
  ELSE TransformObject([heap      |-> pv.heap,
                        triangles |-> PushTriangles(object.triangles, pv.vertices, st.triangles),
                        threw     |-> st.threw],
                       object,
                       IF AttrOr(object.transform, Null) = Null THEN <<>>
                       ELSE MatrixValues(SplitWhiteSpace(object.transform, <<>>)))

\* lines 117-173: the body of the loop over the objects, from [heap, triangles, threw]
ParseObject(st, object) ==
  IF ~object.mesh THEN st
  ELSE IF ~object.hasVertices THEN st
  ELSE ParseMesh(st, object, ParseVertices(object.vertices, st.heap, <<>>))

RECURSIVE ParseObjects(_, _)
ParseObjects(st, objects) ==
  IF objects = <<>> \/ st.threw THEN st
  ELSE ParseObjects(ParseObject(st, Head(objects)), Tail(objects))

\* triangle.a[0] *= unitScale, ... for the array a slot refers to
ScaleArray(heap, ref, unitScale) ==
  [heap EXCEPT ![ref] = <<FMul(@[1], ToNumber(unitScale)),
                          FMul(@[2], ToNumber(unitScale)),
                          FMul(@[3], ToNumber(unitScale))>>]

\* lines 176-188: the arrays are multiplied in place, slot by slot
RECURSIVE ScaleTriangles(_, _, _)
ScaleTriangles(heap, triangles, unitScale) ==
  IF triangles = <<>> THEN heap
  ELSE LET t == Head(triangles)
       IN  ScaleTriangles(ScaleArray(ScaleArray(ScaleArray(heap, t.a, unitScale),
                                                t.b, unitScale), t.c, unitScale),
                          Tail(triangles), unitScale)

\* the triangles with the arrays they refer to read out
Deref(heap, triangles) ==
  [i \in 1..Len(triangles) |-> [a |-> heap[triangles[i].a],
                                b |-> heap[triangles[i].b],
                                c |-> heap[triangles[i].c]]]

\* lines 175-190: the coordinates scaled in place and the triangles returned
ScaleModel(st, unitScale) ==
  IF st.threw THEN [threw |-> TRUE, triangles |-> <<>>]
  ELSE [threw     |-> FALSE,
        triangles |-> Deref(IF unitScale # Num(1)
                            THEN ScaleTriangles(st.heap, st.triangles, unitScale)
                            ELSE st.heap,
                            st.triangles)]

\* lines 91-190: the model document parsed
ParseModel(ex) ==
  IF ex.threw THEN [threw |-> TRUE, triangles |-> <<>>]
  ELSE ScaleModel(ParseObjects([heap |-> <<>>, triangles |-> <<>>, threw |-> FALSE],
                               ex.doc.objects),
                  UnitScale(ex.doc))

\* parse3MF(buffer): [threw, triangles]
parse3MF(file) == ParseModel(extract3MFXML(file))

(***************************************************************************)
(* FileDropZone.processFile.  A file is                                    *)
(*   [name |-> text, bytes |-> Seq(0..255), zip |-> [ok, entries], doc]    *)
(* where zip and doc are what JSZip and DOMParser make of the bytes.       *)
(***************************************************************************)
\* the code points of the bytes 0x80..0x9F in windows-1252
Windows1252High ==
  <<8364, 129, 8218, 402, 8222, 8230, 8224, 8225, 710, 8240, 352, 8249, 338, 141, 381, 143,
    144, 8216, 8217, 8220, 8221, 8226, 8211, 8212, 732, 8482, 353, 8250, 339, 157, 382, 376>>

\* new TextDecoder('ascii').decode(buffer): the label ascii names windows-1252
DecodeAscii(buf) ==
  [i \in 1..Len(buf) |-> IF buf[i] >= 128 /\ buf[i] <= 159
                         THEN Windows1252High[buf[i] - 127] ELSE buf[i]]

ExtStl == Txt(<<".","s","t","l">>)

Ext3mf == Txt(<<".","3","m","f">>)

IsStlName(name) == EndsWith(ToLowerCase(name), ExtStl)

Is3mfName(name) == EndsWith(ToLowerCase(name), Ext3mf)

\* what processFile returns: a FileData, or null
NullResult == [null |-> TRUE, filename |-> <<>>, surfaceArea_dm2 |-> Num(0)]

FileData(filename, surfaceArea_dm2) ==
  [null |-> FALSE, filename |-> filename, surfaceArea_dm2 |-> surfaceArea_dm2]

\* lines 22-36: the triangles of the file, or the error thrown
ParseFile(file) ==
  IF IsStlName(file.name)
  THEN (IF isASCIISTL(file.bytes)
        THEN [threw |-> FALSE, triangles |-> parseASCIISTL(DecodeAscii(file.bytes))]
        ELSE parseBinarySTL(file.bytes))
  ELSE IF Is3mfName(file.name) THEN parse3MF(file)
  ELSE [threw |-> TRUE, triangles |-> <<>>]

\* lines 38-47 with the session unit kept for every file
MeasureFileSessionUnit(file, triangles, unit) ==
  IF Len(triangles) = 0 THEN NullResult
  ELSE FileData(file.name, calculateSurfaceArea(triangles, unit))

\* lines 38-47: the result for the triangles parsed
MeasureFile(file, triangles, unit) ==
  LET useUnit == IF ~IsStlName(file.name) /\ Is3mfName(file.name) THEN "mm" ELSE unit
  IN  IF Len(triangles) = 0 THEN NullResult
      ELSE FileData(file.name, calculateSurfaceArea(triangles, useUnit))

\* processFile(file), with the unit the callback closed over
processFile(file, unit) ==
  LET parsed == ParseFile(file)
  IN  IF parsed.threw THEN NullResult
      ELSE MeasureFile(file, parsed.triangles, unit)

(***************************************************************************)
(* Inputs.  Binary STL buffers are built from a triangle list by the       *)
(* layout of the format: 80 header bytes, the count, 50-byte records.      *)
(***************************************************************************)
Repeat(b, n) == [i \in 1..n |-> b]

\* the sequences over S of length 0..n
RECURSIVE SeqsUpTo(_, _)
SeqsUpTo(S, n) ==
  IF n = 0 THEN {<<>>}
  ELSE LET shorter == SeqsUpTo(S, n - 1)
       IN  shorter \cup {Append(q, x) : q \in {r \in shorter : Len(r) = n - 1}, x \in S}

\* the bytes of the binary32 equal to x, least significant first
Binary32Bytes(x) ==
  IF IsNaN(x) THEN <<0, 0, 192, 127>>
  ELSE IF IsInf(x) THEN <<0, 0, 128, IF x.m < 0 THEN 255 ELSE 127>>
  ELSE IF x.m = 0 THEN <<0, 0, 0, 0>>
  ELSE LET L    == BitLen(Abs(x.m))
           ex   == x.e + L - 1 + 127
           frac == (Abs(x.m) - Pow2(L - 1)) * Pow2(24 - L)
       IN  <<frac % 256,
             (frac \div 256) % 256,
             (ex % 2) * 128 + frac \div 65536,
             (IF x.m < 0 THEN 128 ELSE 0) + ex \div 2>>

VertexBytes(v) == Binary32Bytes(v[1]) \o Binary32Bytes(v[2]) \o Binary32Bytes(v[3])

\* one 50-byte record: normal, a, b, c, attribute
RecordBytes(t, normalByte, attrByte) ==
  Repeat(normalByte, 12) \o VertexBytes(t.a) \o VertexBytes(t.b) \o VertexBytes(t.c)
    \o Repeat(attrByte, 2)

RECURSIVE RecordsBytes(_, _, _)
RecordsBytes(tris, normalByte, attrByte) ==
  IF tris = <<>> THEN <<>>
  ELSE RecordBytes(Head(tris), normalByte, attrByte) \o RecordsBytes(Tail(tris), normalByte, attrByte)

\* the unsigned 32-bit little-endian count
CountBytes(n) == <<n % 256, (n \div 256) % 256, (n \div 65536) % 256, n \div 16777216>>

\* the encoding of a triangle list: 80 header bytes, count, records
EncodeBinarySTL(tris) == Repeat(0, 80) \o CountBytes(Len(tris)) \o RecordsBytes(tris, 0, 0)

Vtx(x, y, z) == <<x, y, z>>

Tri(a, b, c) == [a |-> a, b |-> b, c |-> c]

\* triangles with binary32 coordinates
BinTriangles ==
  { Tri(Vtx(Num(0), Num(0), Num(0)), Vtx(Num(1), Num(0), Num(0)), Vtx(Num(0), Num(1), Num(0))),
    Tri(Vtx(FNeg(Dec(3, 2)), Num(2), Dec(1, 4)), Vtx(Num(3), Num(-1), Num(0)), Vtx(Num(0), Dec(5, 2), Num(7))),
    Tri(Vtx(NaN, Num(0), Num(0)), Vtx(Num(1), PosInf, Num(0)), Vtx(Num(0), Num(1), NegInf)) }

SolidHeader == Txt(<<"s","o","l","i","d"," ","p","a","r","t">>)

\* a binary buffer: the records of tris with every unused byte set to fill,
\* the count field set to declared, trail bytes appended, cut bytes removed
BinaryBuffer(tris, fill, solid, declared, trail, cut) ==
  LET header == IF solid THEN SolidHeader \o Repeat(fill, 80 - Len(SolidHeader))
                ELSE Repeat(fill, 80)
      whole  == header \o CountBytes(declared) \o RecordsBytes(tris, fill, fill)
                  \o Repeat(fill, trail)
  IN  SubSeq(whole, 1, Len(whole) - cut)

NoZip == [ok |-> FALSE, entries |-> <<>>]

NoDoc == [model |-> FALSE, unit |-> Null, objects |-> <<>>]

StlFile(bytes) == [name |-> Txt(<<"p","a","r","t",".","S","T","L">>), bytes |-> bytes,
                   zip |-> NoZip, doc |-> NoDoc]

BinaryParams ==
  { p \in [tris : SeqsUpTo(BinTriangles, MaxTris), fill : {0, 255}, solid : BOOLEAN,
           delta : {-1, 0, 1}, trail : {0, 3}, cut : {0, 1, 2, 3}] :
      Len(p.tris) + p.delta >= 0 }

BinaryInputs ==
  { [file  |-> StlFile(BinaryBuffer(p.tris, p.fill, p.solid, Len(p.tris) + p.delta, p.trail, p.cut)),
     given |-> [family |-> "binary", tris |-> p.tris, fill |-> p.fill, solid |-> p.solid,
                declared |-> Len(p.tris) + p.delta, trail |-> p.trail, cut |-> p.cut]] :
      p \in BinaryParams } \cup
  { [file  |-> StlFile(Repeat(0, n)),
     given |-> [family |-> "short", tris |-> <<>>, fill |-> 0, solid |-> FALSE,
                declared |-> 0, trail |-> 0, cut |-> 84 - n]] : n \in {0, 1, 80, 83} }

(***************************************************************************)
(* Text STL inputs: "solid part", then facets, then "endsolid part".  The  *)
(* k-th vertex line of the j-th facet reads "vertex j k 0.5".              *)
(***************************************************************************)
Digit(n) == <<48 + n>>

Space == <<32>>

\* the vertex line and the vertex it stands for
VertexLine(j, k) ==
  KwVertex \o Space \o Digit(j) \o Space \o Digit(k) \o Space \o Txt(<<"0",".","5">>)

VertexOf(j, k) == Vtx(Num(j), Num(k), Dec(1, 2))

FacetLine == Txt(<<"f","a","c","e","t"," ","n","o","r","m","a","l"," ","0"," ","0"," ","1">>)

FacetKinds == {"good", "short1", "short2", "long4", "junk", "open", "extra"}

\* the lines of the j-th facet
FacetLines(kind, j) ==
  CASE kind = "good"   -> <<FacetLine, VertexLine(j, 1), VertexLine(j, 2), VertexLine(j, 3), KwEndfacet>>
    [] kind = "short1" -> <<FacetLine, VertexLine(j, 1), KwEndfacet>>
    [] kind = "short2" -> <<FacetLine, VertexLine(j, 1), VertexLine(j, 2), KwEndfacet>>
    [] kind = "long4"  -> <<FacetLine, VertexLine(j, 1), VertexLine(j, 2), VertexLine(j, 3),
                            VertexLine(j, 4), KwEndfacet>>
    [] kind = "junk"   -> <<FacetLine, VertexLine(j, 1),
                            KwVertex \o Space \o Digit(j) \o Space \o Digit(8),
                            VertexLine(j, 2),
                            KwVertex \o Space \o Digit(j) \o Space \o Txt(<<"x">>) \o Space \o Digit(9),
                            VertexLine(j, 3), KwEndfacet>>
    [] kind = "open"   -> <<FacetLine, VertexLine(j, 1), VertexLine(j, 2)>>
    [] kind = "extra"  -> <<FacetLine, VertexLine(j, 1), VertexLine(j, 2),
                            VertexLine(j, 3) \o Space \o Digit(9), KwEndfacet>>

RECURSIVE FacetsLines(_, _)
FacetsLines(kinds, j) ==
  IF kinds = <<>> THEN <<>>
  ELSE FacetLines(Head(kinds), j) \o FacetsLines(Tail(kinds), j + 1)

\* the lines joined: indented and ended by CR LF, or bare and ended by LF
RECURSIVE JoinLines(_, _)
JoinLines(lines, crlf) ==
  IF lines = <<>> THEN <<>>
  ELSE (IF crlf THEN <<32, 32>> \o Head(lines) \o <<13, 10>> ELSE Head(lines) \o <<10>>)
         \o JoinLines(Tail(lines), crlf)

AsciiContent(kinds, crlf) ==
  JoinLines(<<SolidHeader>> \o FacetsLines(kinds, 1), crlf)
    \o Txt(<<"e","n","d","s","o","l","i","d"," ","p","a","r","t">>)

AsciiInputs ==
  { [file  |-> StlFile(AsciiContent(kinds, crlf)),
     given |-> [family |-> "ascii", kinds |-> kinds, crlf |-> crlf]] :
      kinds \in SeqsUpTo(FacetKinds, MaxFacets), crlf \in BOOLEAN }

(***************************************************************************)
(* Inputs around the limits of the format detection: white space, a        *)
(* keyword, a name of pad letters, and an end of line or a null byte.      *)
(***************************************************************************)
SniffBuffer(ws, keyword, pad, ending) == ws \o keyword \o Space \o Repeat(97, pad) \o ending

SniffInputs ==
  { [file  |-> StlFile(SniffBuffer(ws, keyword, pad, ending)),
     given |-> [family |-> "sniff", ws |-> ws, keyword |-> keyword, pad |-> pad, ending |-> ending]] :
      ws \in {<<>>, <<32>>, <<13, 9>>},
      keyword \in {Txt(<<"s","o","l","i","d">>), Txt(<<"S","O","L","I","D">>),
                   Txt(<<"S","o","l","i","D">>), Txt(<<"s","o","l","i">>),
                   Txt(<<"x","s","o","l","i","d">>)},
      pad \in {1, 93, 95},
      ending \in {<<>>, <<10>>, <<13>>, <<0, 10>>, <<10, 0>>} }

(***************************************************************************)
(* 3MF inputs: archives and bare documents of one object.                  *)
(***************************************************************************)
AttrNum(n) == Digit(n)

\* an object of three vertices and the triangles given by index triples
MeshObject(triangles, transform) ==
  [mesh |-> TRUE, hasVertices |-> TRUE, hasTriangles |-> TRUE,
   vertices  |-> <<[x |-> AttrNum(0), y |-> AttrNum(0), z |-> AttrNum(0)],
                   [x |-> AttrNum(2), y |-> AttrNum(0), z |-> AttrNum(0)],
                   [x |-> AttrNum(0), y |-> AttrNum(3), z |-> Null]>>,
   triangles |-> [i \in 1..Len(triangles) |->
                    [v1 |-> AttrNum(triangles[i][1]), v2 |-> AttrNum(triangles[i][2]),
                     v3 |-> AttrNum(triangles[i][3])]],
   transform |-> transform]

Document(unit, objects) == [model |-> TRUE, unit |-> unit, objects |-> objects]

ZipSignature == <<80, 75, 3, 4>>

ThreeMFFile(bytes, zip, doc) ==
  [name |-> Txt(<<"p","a","r","t",".","3","m","f">>), bytes |-> bytes, zip |-> zip, doc |-> doc]

\* the unit attributes of the model element that are tried
UnitAttrs ==
  { Null, <<>>,
    Txt(<<"m","i","l","l","i","m","e","t","e","r">>), Txt(<<"m","i","c","r","o","n">>),
    Txt(<<"c","e","n","t","i","m","e","t","e","r">>), Txt(<<"i","n","c","h">>),
    Txt(<<"I","n","c","h">>), Txt(<<"f","o","o","t">>), Txt(<<"m","e","t","e","r">>),
    Txt(<<"p","a","r","s","e","c">>), Txt(<<"c","o","n","s","t","r","u","c","t","o","r">>) }

ThreeMFInputs ==
  { [file  |-> ThreeMFFile(ZipSignature, [ok |-> TRUE, entries |-> entries], NoDoc),
     given |-> [family |-> "3mf", layout |-> "zip", unit |-> Txt(<<"i","n","c","h">>)]] :
      entries \in { <<>>,
                    <<[name |-> Txt(<<"r","e","l","s">>), doc |-> NoDoc]>>,
                    <<[name |-> PathCanonical,
                       doc  |-> Document(Txt(<<"i","n","c","h">>), <<MeshObject(<<<<0, 1, 2>>>>, Null)>>)]>>,
                    <<[name |-> PathBare, doc |-> Document(Null, <<>>)]>> } } \cup
  { [file  |-> ThreeMFFile(<<60>>, NoZip, Document(u, <<MeshObject(<<<<0, 1, 2>>>>, Null)>>)),
     given |-> [family |-> "3mf", layout |-> "xml", unit |-> u]] : u \in UnitAttrs } \cup
  { [file  |-> ThreeMFFile(<<60>>, NoZip, Document(Null, <<MeshObject(<<<<0, 1, 2>>, <<0, 1, 3>>>>, Null)>>)),
     given |-> [family |-> "3mf", layout |-> "mixed", unit |-> Null]],
    [file  |-> ThreeMFFile(ZipSignature, NoZip, NoDoc),
     given |-> [family |-> "3mf", layout |-> "broken", unit |-> Null]],
    [file  |-> [name |-> Txt(<<"p","a","r","t",".","t","x","t">>), bytes |-> SolidHeader \o <<10>>,
                zip |-> NoZip, doc |-> NoDoc],
     given |-> [family |-> "other", layout |-> "text", unit |-> Null]] }

FileInputs == BinaryInputs \cup AsciiInputs \cup SniffInputs \cup ThreeMFInputs

(***************************************************************************)
(* State.                                                                  *)
(***************************************************************************)
VARIABLES
  files,                  \* App: the FileData listed
  unit,                   \* App: the unit selected for STL files
  inputMode,              \* App: "upload" or "manual"
  manualSurfaceArea,      \* App: the text of the manual entry
  manualSurfaceAreaUnit,  \* App: the unit of the manual entry
  isProcessing,           \* FileDropZone: the processing indicator
  instance,               \* the mount of FileDropZone that is (or was last) rendered
  batches,                \* the calls of handleFiles that await Promise.all
  submitted,              \* files handed to handleFiles so far
  edits,                  \* changes of the settings so far
  log,                    \* the last alert or delivery
  catalogue,              \* the files at hand: the name of each and what processFile makes of it
  pf,                     \* one call of processFile, stepped through its parser
  calc                    \* one call of a function of geometry, threeMFParser or platingFormulas

appVars == <<files, unit, inputMode, manualSurfaceArea, manualSurfaceAreaUnit,
             isProcessing, instance, batches, submitted, edits, log, catalogue>>

vars == <<files, unit, inputMode, manualSurfaceArea, manualSurfaceAreaUnit,
          isProcessing, instance, batches, submitted, edits, log, catalogue, pf, calc>>

NoLog == [type |-> "none"]

PfIdle == [pc |-> "idle"]

CalcIdle == [pc |-> "idle", op |-> "none"]

\* the state of App and FileDropZone after the first render
AppInit ==
  /\ files = <<>>
  /\ unit = "mm"
  /\ inputMode = "upload"
  /\ manualSurfaceArea = <<>>
  /\ manualSurfaceAreaUnit = "mm2"
  /\ isProcessing = FALSE
  /\ instance = 1
  /\ batches = <<>>
  /\ submitted = 0
  /\ edits = 0
  /\ log = NoLog

(***************************************************************************)
(* SpecFile: one call of processFile(file), the parsers of the STL         *)
(* variants taken one line or one record at a time.                        *)
(***************************************************************************)
PfStart(input, u) ==
  [pc           |-> "read",
   file         |-> input.file,
   given        |-> input.given,
   unit         |-> u,
   variant      |-> "none",
   lines        |-> <<>>,
   lineNo       |-> 1,
   ascii        |-> AsciiStart,
   numTriangles |-> 0,
   bin          |-> [offset |-> 0, i |-> 0, triangles |-> <<>>, threw |-> FALSE],
   triangles    |-> <<>>,
   error        |-> "none",
   result       |-> NullResult]

\* the units a file is measured in: the text inputs vary the lines, not the unit
InputUnits(input) == IF input.given.family = "ascii" THEN {"mm"} ELSE STLUnits

InitFile ==
  /\ AppInit
  /\ catalogue = <<>>
  /\ pf \in UNION {{PfStart(input, u) : u \in InputUnits(input)} : input \in FileInputs}
  /\ calc = CalcIdle

\* what parse3MF gave, taken into the call
Pf3mf(r) ==
  IF r.threw THEN [pf EXCEPT !.pc = "caught", !.variant = "3mf", !.error = "parse3MF"]
  ELSE [pf EXCEPT !.pc = "parsed", !.variant = "3mf", !.triangles = r.triangles]

\* lines 18-36: the buffer is read and the parser is chosen by name and content
PfRead ==
  /\ pf.pc = "read"
  /\ pf' = IF IsStlName(pf.file.name)
           THEN (IF isASCIISTL(pf.file.bytes)
                 THEN [pf EXCEPT !.pc = "ascii", !.variant = "ascii",
                                 !.lines = SplitChar(DecodeAscii(pf.file.bytes), 10)]
                 ELSE IF ~InRange(pf.file.bytes, 80, 4)
                 THEN [pf EXCEPT !.pc = "caught", !.variant = "binary", !.error = "RangeError"]
                 ELSE [pf EXCEPT !.pc = "binary", !.variant = "binary",
                                 !.numTriangles = getUint32(pf.file.bytes, 80, TRUE),
                                 !.bin = [offset |-> 84, i |-> 0, triangles |-> <<>>, threw |-> FALSE]])
           ELSE IF Is3mfName(pf.file.name) THEN Pf3mf(parse3MF(pf.file))
           ELSE [pf EXCEPT !.pc = "caught", !.error = "Unsupported file type"]
  /\ UNCHANGED <<appVars, calc>>

\* parseASCIISTL: one pass of the loop over the lines
PfAsciiLine ==
  /\ pf.pc = "ascii"
  /\ pf.lineNo <= Len(pf.lines)
  /\ pf' = [pf EXCEPT !.ascii = AsciiLine(pf.ascii, pf.lines[pf.lineNo]),
                      !.lineNo = pf.lineNo + 1]
  /\ UNCHANGED <<appVars, calc>>

\* parseASCIISTL returns its triangles
PfAsciiReturn ==
  /\ pf.pc = "ascii"
  /\ pf.lineNo > Len(pf.lines)
  /\ pf' = [pf EXCEPT !.pc = "parsed", !.triangles = pf.ascii.triangles]
  /\ UNCHANGED <<appVars, calc>>

\* parseBinarySTL: one pass of the loop over the records, or the RangeError
PfBinaryRecord ==
  /\ pf.pc = "binary"
  /\ pf.bin.i < pf.numTriangles
  /\ pf' = [pf EXCEPT !.bin = BinaryRecord(pf.file.bytes, pf.bin),
                      !.pc = IF ~InRange(pf.file.bytes, pf.bin.offset + 12, 36)
                             THEN "caught" ELSE "binary",
                      !.error = IF ~InRange(pf.file.bytes, pf.bin.offset + 12, 36)
                                THEN "RangeError" ELSE "none"]
  /\ UNCHANGED <<appVars, calc>>

\* parseBinarySTL returns its triangles
PfBinaryReturn ==
  /\ pf.pc = "binary"
  /\ pf.bin.i >= pf.numTriangles
  /\ pf' = [pf EXCEPT !.pc = "parsed", !.triangles = pf.bin.triangles]
  /\ UNCHANGED <<appVars, calc>>

\* the measuring step without the check for an empty triangle list
PfMeasureNoCheck ==
  /\ pf.pc = "parsed"
  /\ pf' = [pf EXCEPT !.pc = "returned",
                      !.result = FileData(pf.file.name,
                                          calculateSurfaceArea(pf.triangles,
                                            IF pf.variant = "3mf" THEN "mm" ELSE pf.unit))]
  /\ UNCHANGED <<appVars, calc>>

\* lines 38-47: no triangles is an error, else the FileData is returned
PfMeasure ==
  /\ pf.pc = "parsed"
  /\ pf' = IF Len(pf.triangles) = 0
           THEN [pf EXCEPT !.pc = "caught", !.error = "No triangles found in file"]
           ELSE [pf EXCEPT !.pc = "returned",
                           !.result = MeasureFile(pf.file, pf.triangles, pf.unit)]
  /\ UNCHANGED <<appVars, calc>>

\* lines 48-51: the error is logged and null is returned
PfCatch ==
  /\ pf.pc = "caught"
  /\ pf' = [pf EXCEPT !.pc = "returned", !.result = NullResult]
  /\ UNCHANGED <<appVars, calc>>

NextFile ==
  \/ PfRead
  \/ PfAsciiLine
  \/ PfAsciiReturn
  \/ PfBinaryRecord
  \/ PfBinaryReturn
  \/ PfMeasure
  \/ PfCatch

SpecFile == InitFile /\ [][NextFile]_vars

(***************************************************************************)
(* Spec: App and FileDropZone.  The files a user can hand over are those   *)
(* of Catalogue; a batch is one call of handleFiles waiting in Promise.all *)
(* for its processFile calls, which settle in any order.                   *)
(***************************************************************************)
MaxSubmitted == 3

MaxEdits == 1

Named(file, name) == [file EXCEPT !.name = name]

\* the triangle (0,0,0), (p,0,0), (0,q,0)
RightTriangle(p, q) ==
  Tri(Vtx(Num(0), Num(0), Num(0)), Vtx(Num(p), Num(0), Num(0)), Vtx(Num(0), Num(q), Num(0)))

UnitTriangleText ==
  JoinLines(<<SolidHeader, FacetLine,
              KwVertex \o Space \o Digit(0) \o Space \o Digit(0) \o Space \o Digit(0),
              KwVertex \o Space \o Digit(1) \o Space \o Digit(0) \o Space \o Digit(0),
              KwVertex \o Space \o Digit(0) \o Space \o Digit(1) \o Space \o Digit(0),
              KwEndfacet>>, FALSE)
    \o Txt(<<"e","n","d","s","o","l","i","d"," ","p","a","r","t">>)

NaNTriangle == Tri(Vtx(NaN, Num(0), Num(0)), Vtx(Num(1), Num(0), Num(0)), Vtx(Num(0), Num(1), Num(0)))

\* the files at hand, and what each is
Catalogue ==
  << Named(StlFile(EncodeBinarySTL(<<RightTriangle(1, 10)>>)), Txt(<<"a",".","s","t","l">>)),
     Named(StlFile(UnitTriangleText), Txt(<<"b",".","S","T","L">>)),
     Named(StlFile(SubSeq(EncodeBinarySTL(<<RightTriangle(1, 1), RightTriangle(2, 2)>>), 1, 134)),
           Txt(<<"c",".","s","t","l">>)),
     Named(StlFile(EncodeBinarySTL(<<>>)), Txt(<<"d",".","s","t","l">>)),
     Named(StlFile(EncodeBinarySTL(<<NaNTriangle>>)), Txt(<<"e",".","s","t","l">>)),
     Named(StlFile(SolidHeader \o <<10>>), Txt(<<"f",".","t","x","t">>)),
     ThreeMFFile(ZipSignature,
                 [ok |-> TRUE, entries |-> <<[name |-> Txt(<<"r","e","l","s">>), doc |-> NoDoc]>>],
                 NoDoc) >>

CatalogueKinds ==
  <<"mesh", "mesh", "truncated", "empty", "nan", "unsupported", "nomodel">>

FileIds == 1..Len(CatalogueKinds)

\* the first n files as the model holds them: the name and, for each unit
\* that can be selected, what processFile returns
RECURSIVE Shelf(_)
Shelf(n) ==
  IF n = 0 THEN <<>>
  ELSE Append(Shelf(n - 1),
              [name    |-> Catalogue[n].name,
               outcome |-> [mm   |-> processFile(Catalogue[n], "mm"),
                            cm   |-> processFile(Catalogue[n], "cm"),
                            inch |-> processFile(Catalogue[n], "inch")]])

\* the FileList a user can drop or select with n more files allowed
FileLists(n) == {fl \in SeqsUpTo(FileIds, n) : Len(fl) >= 1}

HasValidName(id) == IsStlName(catalogue[id].name) \/ Is3mfName(catalogue[id].name)

SurfaceAreaUnits == {"dm2", "cm2", "m2", "mm2"}

ManualTexts == {<<>>, Txt(<<"2",".","5">>), Txt(<<"-","1">>), Txt(<<"a","b","c">>)}

\* value <= 0 for a number that is not NaN
NotPositive(x) == x.m <= 0

\* App lines 26-43
manualSurfaceArea_dm2 ==
  IF IsNaN(ParseFloat(manualSurfaceArea)) \/ NotPositive(ParseFloat(manualSurfaceArea)) THEN Num(0)
  ELSE CASE manualSurfaceAreaUnit = "dm2" -> ParseFloat(manualSurfaceArea)
         [] manualSurfaceAreaUnit = "cm2" -> FDivInt(ParseFloat(manualSurfaceArea), 100)
         [] manualSurfaceAreaUnit = "m2"  -> FMul(ParseFloat(manualSurfaceArea), Num(100))
         [] manualSurfaceAreaUnit = "mm2" -> FDivInt(ParseFloat(manualSurfaceArea), 10000)
         [] OTHER -> Num(0)

\* files.reduce((sum, file) => sum + file.surfaceArea_dm2, 0)
RECURSIVE SumAreas(_, _)
SumAreas(fs, sum) ==
  IF fs = <<>> THEN sum ELSE SumAreas(Tail(fs), FAdd(sum, Head(fs).surfaceArea_dm2))

\* App lines 45-47
totalSurfaceArea ==
  IF inputMode = "upload" THEN SumAreas(files, Num(0)) ELSE manualSurfaceArea_dm2

Init == AppInit /\ catalogue = Shelf(Len(Catalogue)) /\ pf = PfIdle /\ calc = CalcIdle

\* results.filter(r => r !== null)
NotNull(r) == ~r.null

Remove(q, b) == SubSeq(q, 1, b - 1) \o SubSeq(q, b + 1, Len(q))

\* handleFiles(files) up to the await: the files are filtered by name and
\* either the alert is shown or the processFile calls are started
HandleFiles(fl) ==
  /\ inputMode = "upload"
  /\ submitted + Len(fl) <= MaxSubmitted
  /\ submitted' = submitted + Len(fl)
  /\ IF SelectSeq(fl, HasValidName) = <<>>
     THEN /\ log' = [type |-> "alert"]
          /\ UNCHANGED <<isProcessing, batches>>
     ELSE /\ isProcessing' = TRUE
          /\ batches' = Append(batches, [given      |-> fl,
                                         validFiles |-> SelectSeq(fl, HasValidName),
                                         unit       |-> unit,
                                         instance   |-> instance,
                                         results    |-> [i \in 1..Len(SelectSeq(fl, HasValidName)) |-> NullResult],
                                         settled    |-> {},
                                         inOrder    |-> TRUE])
          /\ log' = log
  /\ UNCHANGED <<files, unit, inputMode, manualSurfaceArea, manualSurfaceAreaUnit, instance, edits, catalogue, pf, calc>>

\* the results collected as the calls settle instead of by Promise.all: the
\* k-th call to settle takes the k-th place
FileSettledPushed(b, i) ==
  /\ i \notin batches[b].settled
  /\ batches' = [batches EXCEPT ![b].results[Cardinality(batches[b].settled) + 1] =
                                  catalogue[batches[b].validFiles[i]].outcome[batches[b].unit],
                                ![b].settled = @ \cup {i},
                                ![b].inOrder = @ /\ batches[b].settled = 1..(i - 1)]
  /\ UNCHANGED <<files, unit, inputMode, manualSurfaceArea, manualSurfaceAreaUnit,
                 isProcessing, instance, submitted, edits, log, catalogue, pf, calc>>

\* the i-th processFile call of batch b settles
FileSettled(b, i) ==
  /\ i \notin batches[b].settled
  /\ batches' = [batches EXCEPT ![b].results[i] = catalogue[batches[b].validFiles[i]].outcome[batches[b].unit],
                                ![b].settled = @ \cup {i},
                                ![b].inOrder = @ /\ batches[b].settled = 1..(i - 1)]
  /\ UNCHANGED <<files, unit, inputMode, manualSurfaceArea, manualSurfaceAreaUnit,
                 isProcessing, instance, submitted, edits, log, catalogue, pf, calc>>

\* the delivery that sets the list to the new results instead of appending them
DeliverReplacing(b) ==
  /\ batches[b].settled = 1..Len(batches[b].validFiles)
  /\ files' = SelectSeq(batches[b].results, NotNull)
  /\ isProcessing' = IF inputMode = "upload" /\ batches[b].instance = instance
                     THEN FALSE ELSE isProcessing
  /\ batches' = Remove(batches, b)
  /\ log' = [type   |-> "delivered",
             batch  |-> batches[b],
             prev   |-> files,
             handed |-> SelectSeq(batches[b].results, NotNull)]
  /\ UNCHANGED <<unit, inputMode, manualSurfaceArea, manualSurfaceAreaUnit,
                 instance, submitted, edits, catalogue, pf, calc>>

\* the delivery without the filter for null
DeliverUnfiltered(b) ==
  /\ batches[b].settled = 1..Len(batches[b].validFiles)
  /\ files' = files \o batches[b].results
  /\ isProcessing' = IF inputMode = "upload" /\ batches[b].instance = instance
                     THEN FALSE ELSE isProcessing
  /\ batches' = Remove(batches, b)
  /\ log' = [type   |-> "delivered",
             batch  |-> batches[b],
             prev   |-> files,
             handed |-> batches[b].results]
  /\ UNCHANGED <<unit, inputMode, manualSurfaceArea, manualSurfaceAreaUnit,
                 instance, submitted, edits, catalogue, pf, calc>>

\* handleFiles after the await: Promise.all has resolved, the results that
\* are not null go to handleFilesLoaded and the indicator is cleared
Deliver(b) ==
  /\ batches[b].settled = 1..Len(batches[b].validFiles)
  /\ files' = files \o SelectSeq(batches[b].results, NotNull)
  /\ isProcessing' = IF inputMode = "upload" /\ batches[b].instance = instance
                     THEN FALSE ELSE isProcessing
  /\ batches' = Remove(batches, b)
  /\ log' = [type   |-> "delivered",
             batch  |-> batches[b],
             prev   |-> files,
             handed |-> SelectSeq(batches[b].results, NotNull)]
  /\ UNCHANGED <<unit, inputMode, manualSurfaceArea, manualSurfaceAreaUnit,
                 instance, submitted, edits, catalogue, pf, calc>>

\* handleClearFiles, from the button shown while files are listed
ClearFiles ==
  /\ inputMode = "upload"
  /\ Len(files) > 0
  /\ edits < MaxEdits
  /\ edits' = edits + 1
  /\ files' = <<>>
  /\ UNCHANGED <<unit, inputMode, manualSurfaceArea, manualSurfaceAreaUnit,
                 isProcessing, instance, batches, submitted, log, catalogue, pf, calc>>

\* the unit select changes
SetUnit(u) ==
  /\ inputMode = "upload"
  /\ u # unit
  /\ edits < MaxEdits
  /\ edits' = edits + 1
  /\ unit' = u
  /\ UNCHANGED <<files, inputMode, manualSurfaceArea, manualSurfaceAreaUnit,
                 isProcessing, instance, batches, submitted, log, catalogue, pf, calc>>

\* the mode buttons: FileDropZone is rendered in upload mode only, and a
\* new mount starts with its indicator cleared
SetInputMode(m) ==
  /\ m # inputMode
  /\ edits < MaxEdits
  /\ edits' = edits + 1
  /\ inputMode' = m
  /\ isProcessing' = FALSE
  /\ instance' = IF m = "upload" THEN instance + 1 ELSE instance
  /\ UNCHANGED <<files, unit, manualSurfaceArea, manualSurfaceAreaUnit,
                 batches, submitted, log, catalogue, pf, calc>>

\* the manual entry and its unit
SetManualSurfaceArea(t) ==
  /\ inputMode = "manual"
  /\ t # manualSurfaceArea
  /\ edits < MaxEdits + 1
  /\ edits' = edits + 1
  /\ manualSurfaceArea' = t
  /\ UNCHANGED <<files, unit, inputMode, manualSurfaceAreaUnit,
                 isProcessing, instance, batches, submitted, log, catalogue, pf, calc>>

SetManualSurfaceAreaUnit(u) ==
  /\ inputMode = "manual"
  /\ u # manualSurfaceAreaUnit
  /\ edits < MaxEdits + 1
  /\ edits' = edits + 1
  /\ manualSurfaceAreaUnit' = u
  /\ UNCHANGED <<files, unit, inputMode, manualSurfaceArea,
                 isProcessing, instance, batches, submitted, log, catalogue, pf, calc>>

Next ==
  \/ \E fl \in FileLists(MaxSubmitted - submitted) : HandleFiles(fl)
  \/ \E b \in 1..Len(batches) : \E i \in 1..Len(batches[b].validFiles) : FileSettled(b, i)
  \/ \E b \in 1..Len(batches) : Deliver(b)
  \/ ClearFiles
  \/ \E u \in STLUnits : SetUnit(u)
  \/ \E m \in {"upload", "manual"} : SetInputMode(m)
  \/ \E t \in ManualTexts : SetManualSurfaceArea(t)
  \/ \E u \in SurfaceAreaUnits : SetManualSurfaceAreaUnit(u)

Spec == Init /\ [][Next]_vars

(***************************************************************************)
(* SpecArea: one call of calculateSurfaceArea(triangles, unit).  The       *)
(* triangles tried have small integer coordinates times a power of two:    *)
(* the vertex <<x, y, z>> with the exponent k is (x, y, z) * 2^k.          *)
(***************************************************************************)
\* triangles in a list handed to calculateSurfaceArea
MaxAreaTris == 2

\* the integer n * 2^k as a number
Scaled(n, k) == Finite(IF n < 0 THEN -1 ELSE 1, Abs(n), k)

AreaShape(a, b, c, k) == [a |-> a, b |-> b, c |-> c, k |-> k]

AreaShapes ==
  { AreaShape(<<0, 0, 0>>, <<1, 0, 0>>, <<0, 1, 0>>, 0),
    AreaShape(<<0, 0, 4>>, <<8, 0, 0>>, <<0, 12, 0>>, -3),
    AreaShape(<<1, 1, 0>>, <<1, 1, 0>>, <<0, 2, 1>>, 0),
    AreaShape(<<5, 0, 1>>, <<1, 2, 3>>, <<1, 2, 3>>, 0),
    AreaShape(<<-2, 7, 0>>, <<4, 4, 4>>, <<-2, 7, 0>>, 1),
    AreaShape(<<1, 2, 3>>, <<1, 2, 3>>, <<1, 2, 3>>, 0),
    AreaShape(<<0, 0, 0>>, <<1, 0, 0>>, <<2, 0, 0>>, 0),
    AreaShape(<<0, 3, 0>>, <<3, 10, 0>>, <<6, 17, 0>>, 0),
    AreaShape(<<0, 0, 0>>, <<33, 32, 0>>, <<32, 31, 0>>, -5),
    AreaShape(<<0, 0, 0>>, <<1, 0, 0>>, <<0, 1, 0>>, 600),
    AreaShape(<<0, 0, 0>>, <<0, 1, 1>>, <<0, 1, 2>>, 600),
    AreaShape(<<-3, 0, 0>>, <<-3, 0, 0>>, <<3, 0, 0>>, 1022) }

ShapeVertex(v, k) == Vtx(Scaled(v[1], k), Scaled(v[2], k), Scaled(v[3], k))

\* the Triangle of a shape
ShapeTriangle(sh) == Tri(ShapeVertex(sh.a, sh.k), ShapeVertex(sh.b, sh.k), ShapeVertex(sh.c, sh.k))

AreaCall(shapes, u) ==
  [op        |-> "calculateSurfaceArea",
   pc        |-> "called",
   given     |-> shapes,
   triangles |-> [i \in 1..Len(shapes) |-> ShapeTriangle(shapes[i])],
   unit      |-> u,
   result    |-> Num(0)]

InitArea ==
  /\ AppInit
  /\ catalogue = <<>>
  /\ pf = PfIdle
  /\ calc \in {AreaCall(shapes, u) : shapes \in SeqsUpTo(AreaShapes, MaxAreaTris), u \in STLUnits}

\* the call returns
CalcArea ==
  /\ calc.op = "calculateSurfaceArea"
  /\ calc.pc = "called"
  /\ calc' = [calc EXCEPT !.pc = "returned",
                          !.result = calculateSurfaceArea(calc.triangles, calc.unit)]
  /\ UNCHANGED <<appVars, pf>>

NextArea == CalcArea

SpecArea == InitArea /\ [][NextArea]_vars

(***************************************************************************)
(* SpecZip: one call of extract3MFXML(buffer) on an archive.  The entries  *)
(* of an archive have distinct names; the document of the i-th entry holds *)
(* one triangle whose first vertex has x = i.                              *)
(***************************************************************************)
\* entries in an archive
MaxEntries == 3

\* the names tried, each with the rule of the search it falls under
EntryNames ==
  { [name |-> PathCanonical, rule |-> "canonical"],
    [name |-> PathBare, rule |-> "bare"],
    [name |-> Txt(<<"a",".","m","o","d","e","l">>), rule |-> "model"],
    [name |-> Txt(<<"m","o","d","e","l",".","x","m","l">>), rule |-> "model"],
    [name |-> Txt(<<"a",".","x","m","l">>), rule |-> "xml"],
    [name |-> Txt(<<"A",".","M","O","D","E","L">>), rule |-> "none"],
    [name |-> Txt(<<"m","o","d","e","l",".","r","e","l","s">>), rule |-> "none"] }

\* the document of the i-th entry
EntryDoc(i) ==
  [model |-> TRUE, unit |-> Null,
   objects |-> <<[mesh |-> TRUE, hasVertices |-> TRUE, hasTriangles |-> TRUE,
                  vertices  |-> <<[x |-> Digit(i), y |-> Digit(0), z |-> Digit(0)],
                                  [x |-> Digit(0), y |-> Digit(1), z |-> Digit(0)],
                                  [x |-> Digit(0), y |-> Digit(0), z |-> Digit(1)]>>,
                  triangles |-> <<[v1 |-> Digit(0), v2 |-> Digit(1), v3 |-> Digit(2)]>>,
                  transform |-> Null]>>]

\* the archives of up to MaxEntries entries with distinct names
Archives ==
  { q \in SeqsUpTo(EntryNames, MaxEntries) :
      \A i \in 1..Len(q) : \A j \in 1..Len(q) : i # j => q[i] # q[j] }

ZipCall(q) ==
  [op     |-> "extract3MFXML",
   pc     |-> "called",
   given  |-> q,
   file   |-> [name  |-> Txt(<<"p","a","r","t",".","3","m","f">>),
               bytes |-> <<80, 75, 3, 4>>,
               zip   |-> [ok |-> TRUE,
                          entries |-> [i \in 1..Len(q) |-> [name |-> q[i].name, doc |-> EntryDoc(i)]]],
               doc   |-> [model |-> FALSE, unit |-> Null, objects |-> <<>>]],
   result |-> [threw |-> FALSE, doc |-> [model |-> FALSE, unit |-> Null, objects |-> <<>>]]]

InitZip ==
  /\ AppInit
  /\ catalogue = <<>>
  /\ pf = PfIdle
  /\ calc \in {ZipCall(q) : q \in Archives}

\* the call returns the text of an entry, or throws
CalcExtract ==
  /\ calc.op = "extract3MFXML"
  /\ calc.pc = "called"
  /\ calc' = [calc EXCEPT !.pc = "returned", !.result = extract3MFXML(calc.file)]
  /\ UNCHANGED <<appVars, pf>>

NextZip == CalcExtract

SpecZip == InitZip /\ [][NextZip]_vars

(***************************************************************************)
(* One call of parse3MF on a document that is not an archive (Spec3MF).    *)
(* A document is described by its unit attribute and, per object, the      *)
(* spelling of the vertex attributes, the index triples of the triangle    *)
(* elements and the transform attribute.                                   *)
(***************************************************************************)
MaxObjects == 2

\* the coordinates of the three vertex elements of an object
SourceVertex == << <<0, 0, 0>>, <<2, 0, 0>>, <<0, 3, 1>> >>

\* how the x attribute of the third vertex element is written; its value is 0
VertexSpellings == {"plain", "absent", "empty", "junk"}

AttrInt(n) == IF n < 0 THEN <<45>> \o Digit(-n) ELSE Digit(n)

VertexElements(spelling) ==
  [i \in 1..3 |->
     [x |-> IF i = 3
            THEN CASE spelling = "absent" -> Null
                   [] spelling = "empty"  -> <<>>
                   [] spelling = "junk"   -> Txt(<<"a","b","c">>)
                   [] OTHER               -> AttrInt(SourceVertex[i][1])
            ELSE AttrInt(SourceVertex[i][1]),
      y |-> AttrInt(SourceVertex[i][2]),
      z |-> AttrInt(SourceVertex[i][3])]]

\* the index triples of the triangle elements of an object
TriangleLists ==
  { << <<0, 1, 2>> >>,
    << <<0, 1, 2>>, <<0, 2, 1>> >>,
    << <<0, 1, 3>> >>,
    << <<0, 1, 2>>, <<0, 1, 3>> >>,
    << <<-1, 1, 2>>, <<0, 1, 2>> >>,
    << <<0, 0, 1>> >>,
    << >> }

TriangleElements(triples) ==
  [i \in 1..Len(triples) |->
     [v1 |-> AttrInt(triples[i][1]), v2 |-> AttrInt(triples[i][2]), v3 |-> AttrInt(triples[i][3])]]

RECURSIVE MatrixText(_)
MatrixText(ns) ==
  IF ns = <<>> THEN <<>>
  ELSE IF Len(ns) = 1 THEN AttrInt(ns[1])
  ELSE AttrInt(ns[1]) \o Space \o MatrixText(Tail(ns))

TransformKinds == {"none", "identity", "translate", "eleven", "letter"}

TransformAttr(kind) ==
  CASE kind = "identity"  -> MatrixText(<<1, 0, 0, 0, 0, 1, 0, 0, 0, 0, 1, 0>>)
    [] kind = "translate" -> MatrixText(<<1, 0, 0, 0, 0, 1, 0, 0, 0, 0, 1, 5>>)
    [] kind = "eleven"    -> MatrixText(<<1, 0, 0, 0, 0, 1, 0, 0, 0, 0, 1>>)
    [] kind = "letter"    -> MatrixText(<<1, 0, 0, 0, 0, 1, 0, 0, 0, 0, 1>>) \o Space \o Txt(<<"x">>)
    [] OTHER              -> Null

ObjectShape(spelling, triples, kind) ==
  [spelling |-> spelling, triples |-> triples, transform |-> kind]

ObjectShapes ==
  { ObjectShape("plain", triples, kind) : triples \in TriangleLists, kind \in TransformKinds } \cup
  { ObjectShape(spelling, << <<0, 1, 2>> >>, kind) :
      spelling \in VertexSpellings \ {"plain"}, kind \in {"none", "translate"} }

ObjectElement(sh) ==
  [mesh |-> TRUE, hasVertices |-> TRUE, hasTriangles |-> TRUE,
   vertices  |-> VertexElements(sh.spelling),
   triangles |-> TriangleElements(sh.triples),
   transform |-> TransformAttr(sh.transform)]

DocumentUnits == {Null, Txt(<<"i","n","c","h">>), Txt(<<"c","e","n","t","i","m","e","t","e","r">>)}

DocumentShapes ==
  { [unit |-> u, objects |-> objs] :
      u \in DocumentUnits, objs \in SeqsUpTo(ObjectShapes, MaxObjects) }

DocumentOf(d) ==
  [model |-> TRUE, unit |-> d.unit,
   objects |-> [i \in 1..Len(d.objects) |-> ObjectElement(d.objects[i])]]

\* the buffer is the text of the document
XmlFile(doc) ==
  [name |-> Txt(<<"p","a","r","t",".","3","m","f">>), bytes |-> <<60>>,
   zip |-> [ok |-> FALSE, entries |-> <<>>], doc |-> doc]

ParseCall(d) ==
  [op     |-> "parse3MF",
   pc     |-> "called",
   given  |-> d,
   file   |-> XmlFile(DocumentOf(d)),
   result |-> [threw |-> FALSE, triangles |-> <<>>]]

Init3MF ==
  /\ AppInit
  /\ catalogue = <<>>
  /\ pf = PfIdle
  /\ calc \in {ParseCall(d) : d \in DocumentShapes}

\* the call returns the triangles, or throws
CalcParse ==
  /\ calc.op = "parse3MF"
  /\ calc.pc = "called"
  /\ calc' = [calc EXCEPT !.pc = "returned", !.result = parse3MF(calc.file)]
  /\ UNCHANGED <<appVars, pf>>

Next3MF == CalcParse

Spec3MF == Init3MF /\ [][Next3MF]_vars

(***************************************************************************)
(* The two plating formulas applied one after the other (SpecPlating):     *)
(* a thickness is turned into a time and back, or a time into a thickness  *)
(* and back, at one current density, efficiency and material.              *)
(***************************************************************************)
MaxTenths == 20

\* thicknesses in microns and times in seconds: 0.0 .. MaxTenths / 10, the
\* 10 of the documented example, a negative value and a value whose product
\* with K overflows
Amounts ==
  {Dec(n, 10) : n \in 0..MaxTenths} \cup {Num(10), Num(-5), Scaled(1, MaxExponent - 4)}

\* current densities in A/dm2, all > 0
CurrentDensities == {Dec(1, 10), Dec(5, 10), Num(2), Dec(35, 10)}

\* efficiencies, all > 0
Efficiencies == {Dec(5, 10), Dec(9, 10), Dec(95, 100), Num(1)}

PlatingCall(first, x, d, e, m) ==
  [op |-> "platingFormulas", pc |-> "called", first |-> first, input |-> x,
   currentDensity |-> d, efficiency |-> e, material |-> m,
   middle |-> Num(0), result |-> Num(0)]

InitPlating ==
  /\ AppInit
  /\ catalogue = <<>>
  /\ pf = PfIdle
  /\ calc \in {PlatingCall(first, x, d, e, m) :
                 first \in {"calculateTimeFromThickness", "calculateThicknessFromTime"},
                 x \in Amounts, d \in CurrentDensities, e \in Efficiencies, m \in Materials}

\* what the next call is applied to, and where its result goes
PlatingStep(value) ==
  IF calc.pc = "called" THEN [calc EXCEPT !.pc = "half", !.middle = value]
  ELSE [calc EXCEPT !.pc = "returned", !.result = value]

PlatingArg == IF calc.pc = "called" THEN calc.input ELSE calc.middle

\* the formula that is applied in the state: the first one, then the other
PlatingTurn ==
  IF calc.op # "platingFormulas" THEN "none"
  ELSE IF calc.pc = "called" THEN calc.first
  ELSE IF calc.pc = "half"
       THEN (IF calc.first = "calculateTimeFromThickness"
             THEN "calculateThicknessFromTime" ELSE "calculateTimeFromThickness")
  ELSE "none"

CalcTime ==
  /\ PlatingTurn = "calculateTimeFromThickness"
  /\ calc' = PlatingStep(calculateTimeFromThickness(PlatingArg, calc.currentDensity,
                                           calc.efficiency, calc.material))
  /\ UNCHANGED <<appVars, pf>>

CalcThickness ==
  /\ PlatingTurn = "calculateThicknessFromTime"
  /\ calc' = PlatingStep(calculateThicknessFromTime(PlatingArg, calc.currentDensity,
                                           calc.efficiency, calc.material))
  /\ UNCHANGED <<appVars, pf>>

NextPlating ==
  \/ CalcTime
  \/ CalcThickness

SpecPlating == InitPlating /\ [][NextPlating]_vars

(***************************************************************************)
(* formatTime and parseTime applied to a number of seconds, and parseTime  *)
(* applied to a text of fields separated by colons (SpecTime).             *)
(***************************************************************************)
MaxSeconds == 3700

MaxFields == 4

\* whole numbers of seconds that are doubles: 0 .. MaxSeconds, the ends of
\* a day and of the two-digit hours, and numbers of more than SafeBits bits
SecondsTried ==
  {RoundWhole(s) : s \in (0..MaxSeconds) \cup {86399, 86400, 359999, 360000, 363661}} \cup
  {RoundWhole(Pow2(SafeBits) + 2 * i) : i \in 0..MaxSeconds} \cup
  {RoundWhole(3600 * Pow2(SafeBits) + 1800 * i) : i \in 1..60}

\* the fields a text is made of: a number written in digits, with the
\* number it stands for, another spelling of a number, nothing, or other text
FieldsTried ==
  { [text |-> <<48>>, kind |-> "digits", n |-> 0],
    [text |-> <<49>>, kind |-> "digits", n |-> 1],
    [text |-> <<48, 55>>, kind |-> "digits", n |-> 7],
    [text |-> <<53, 57>>, kind |-> "digits", n |-> 59],
    [text |-> <<49, 48, 48>>, kind |-> "digits", n |-> 100],
    [text |-> Txt(<<"-","5">>), kind |-> "number", n |-> -5],
    [text |-> Txt(<<" ","7">>), kind |-> "number", n |-> 7],
    [text |-> <<>>, kind |-> "empty", n |-> 0],
    [text |-> Txt(<<"a","b","c">>), kind |-> "text", n |-> 0] }

RECURSIVE JoinColon(_)
JoinColon(fields) ==
  IF fields = <<>> THEN <<>>
  ELSE IF Len(fields) = 1 THEN fields[1].text
  ELSE fields[1].text \o <<Colon>> \o JoinColon(Tail(fields))

TimeCall(route, seconds, fields) ==
  [op |-> "time", pc |-> "called", route |-> route, seconds |-> seconds, given |-> fields,
   text |-> JoinColon(fields), result |-> Whole(0)]

InitTime ==
  /\ AppInit
  /\ catalogue = <<>>
  /\ pf = PfIdle
  /\ calc \in {TimeCall("formatTime", s, <<>>) : s \in SecondsTried} \cup
              {TimeCall("parseTime", 0, fields) :
                 fields \in SeqsUpTo(FieldsTried, MaxFields) \ {<<>>}}

\* formatTime(seconds)
CalcFormat ==
  /\ calc.op = "time"
  /\ calc.route = "formatTime"
  /\ calc.pc = "called"
  /\ calc' = [calc EXCEPT !.pc = "formatted", !.text = formatTime(calc.seconds)]
  /\ UNCHANGED <<appVars, pf>>

\* parseTime of the text given, or of the text formatTime returned
CalcParseTime ==
  /\ calc.op = "time"
  /\ \/ calc.route = "parseTime" /\ calc.pc = "called"
     \/ calc.pc = "formatted"
  /\ calc' = [calc EXCEPT !.pc = "returned", !.result = parseTime(calc.text)]
  /\ UNCHANGED <<appVars, pf>>

NextTime ==
  \/ CalcFormat
  \/ CalcParseTime

SpecTime == InitTime /\ [][NextTime]_vars

(***************************************************************************)
(* The PlatingCalculator component (SpecCalculator): its state after the   *)
(* first rendering, and one action per onChange handler of a control that  *)
(* is rendered.  calc.steps counts the handlers that ran; calc.kept holds  *)
(* the two target thicknesses in micrometers as they were after the last   *)
(* handler that is not a change of unit, of mode or of job type.           *)
(***************************************************************************)
MaxSteps == 3

DensityTexts ==
  {Txt(<<"0",".","5">>), Txt(<<"2",".","0">>), Txt(<<"0">>), <<>>, Txt(<<"-","1">>)}

ThicknessTexts == {Txt(<<"1","0">>), Txt(<<"5">>), Txt(<<"0",".","5">>), <<>>}

TimeTexts ==
  {<<48, 49, Colon, 48, 48, Colon, 48, 48>>, <<48, 48, Colon, 51, 48, Colon, 48, 48>>,
   Txt(<<"0">>), Txt(<<"a","b","c">>), <<>>}

\* the positions of the efficiency slider that are tried, in percent
EfficiencyStops == {50, 80, 100}

SurfaceAreas == {Num(0), Dec(15, 10), NaN}

\* the target thickness of the single-stage job in micrometers
SingleTarget(c) == thicknessInMicrometers([c EXCEPT !.jobType = "single"])

\* the target thickness of the three-stage job in micrometers
ThreeStageTarget(c) == stage3ThicknessInMicrometers([c EXCEPT !.jobType = "three-stage"])

Kept(c) == [single |-> SingleTarget(c), three |-> ThreeStageTarget(c)]

Mounted(area) ==
  [op |-> "PlatingCalculator", steps |-> 0, totalSurfaceArea_dm2 |-> area,
   jobType |-> "single", material |-> "Copper", efficiency |-> 100,
   currentDensity |-> Typed(Txt(<<"2",".","0">>)), mode |-> "thickness-to-time",
   thicknessInput |-> Typed(Txt(<<"1","0">>)), thicknessUnit |-> "um",
   timeInput |-> <<48, 49, Colon, 48, 48, Colon, 48, 48>>,
   stage1Density |-> Typed(Txt(<<"0",".","5">>)),
   stage1Time |-> <<48, 48, Colon, 51, 48, Colon, 48, 48>>,
   stage2Density |-> Typed(Txt(<<"0",".","5">>)),
   stage2Time |-> <<48, 48, Colon, 51, 48, Colon, 48, 48>>,
   stage3Density |-> Typed(Txt(<<"2",".","0">>)), stage3Mode |-> "thickness-to-time",
   stage3ThicknessInput |-> Typed(Txt(<<"1","0">>)),
   stage3TimeInput |-> <<48, 49, Colon, 48, 48, Colon, 48, 48>>,
   kept |-> [single |-> Num(10), three |-> Num(10)]]

InitCalculator ==
  /\ AppInit
  /\ catalogue = <<>>
  /\ pf = PfIdle
  /\ calc \in {Mounted(area) : area \in SurfaceAreas}

CanStep == calc.op = "PlatingCalculator" /\ calc.steps < MaxSteps

\* the state after a handler that edits a field
Edited(c) == [c EXCEPT !.steps = @ + 1, !.kept = Kept(c)]

\* the state after a change of unit, of mode or of job type
Switched(c) == [c EXCEPT !.steps = @ + 1]

SetJobType ==
  /\ CanStep
  /\ \E v \in {"single", "three-stage"} \ {calc.jobType} : calc' = Switched([calc EXCEPT !.jobType = v])
  /\ UNCHANGED <<appVars, pf>>

SetMaterial ==
  /\ CanStep
  /\ \E v \in Materials \ {calc.material} : calc' = Edited([calc EXCEPT !.material = v])
  /\ UNCHANGED <<appVars, pf>>

SetEfficiency ==
  /\ CanStep
  /\ \E v \in EfficiencyStops \ {calc.efficiency} : calc' = Edited([calc EXCEPT !.efficiency = v])
  /\ UNCHANGED <<appVars, pf>>

SetCurrentDensity ==
  /\ CanStep
  /\ calc.jobType = "single"
  /\ \E t \in DensityTexts : calc' = Edited([calc EXCEPT !.currentDensity = Typed(t)])
  /\ UNCHANGED <<appVars, pf>>

SetMode ==
  /\ CanStep
  /\ calc.jobType = "single"
  /\ \E v \in {"thickness-to-time", "time-to-thickness"} \ {calc.mode} :
       calc' = Switched([calc EXCEPT !.mode = v])
  /\ UNCHANGED <<appVars, pf>>

\* lines 343-356: the unit selector of the single-stage job
SetThicknessUnitSingle ==
  /\ CanStep
  /\ calc.jobType = "single"
  /\ \E newUnit \in {"um", "mm"} \ {calc.thicknessUnit} :
       calc' = Switched([calc EXCEPT
                 !.thicknessInput = IF calc.mode = "thickness-to-time"
                                    THEN ConvertedInput(calc, @, newUnit) ELSE @,
                 !.thicknessUnit = newUnit])
  /\ UNCHANGED <<appVars, pf>>

SetThicknessInput ==
  /\ CanStep
  /\ calc.jobType = "single"
  /\ calc.mode = "thickness-to-time"
  /\ \E t \in ThicknessTexts : calc' = Edited([calc EXCEPT !.thicknessInput = Typed(t)])
  /\ UNCHANGED <<appVars, pf>>

SetTimeInput ==
  /\ CanStep
  /\ calc.jobType = "single"
  /\ calc.mode = "time-to-thickness"
  /\ \E t \in TimeTexts : calc' = Edited([calc EXCEPT !.timeInput = t])
  /\ UNCHANGED <<appVars, pf>>

SetStage1Density ==
  /\ CanStep
  /\ calc.jobType = "three-stage"
  /\ \E t \in DensityTexts : calc' = Edited([calc EXCEPT !.stage1Density = Typed(t)])
  /\ UNCHANGED <<appVars, pf>>

SetStage1Time ==
  /\ CanStep
  /\ calc.jobType = "three-stage"
  /\ \E t \in TimeTexts : calc' = Edited([calc EXCEPT !.stage1Time = t])
  /\ UNCHANGED <<appVars, pf>>

SetStage2Density ==
  /\ CanStep
  /\ calc.jobType = "three-stage"
  /\ \E t \in DensityTexts : calc' = Edited([calc EXCEPT !.stage2Density = Typed(t)])
  /\ UNCHANGED <<appVars, pf>>

SetStage2Time ==
  /\ CanStep
  /\ calc.jobType = "three-stage"
  /\ \E t \in TimeTexts : calc' = Edited([calc EXCEPT !.stage2Time = t])
  /\ UNCHANGED <<appVars, pf>>

SetStage3Density ==
  /\ CanStep
  /\ calc.jobType = "three-stage"
  /\ \E t \in DensityTexts : calc' = Edited([calc EXCEPT !.stage3Density = Typed(t)])
  /\ UNCHANGED <<appVars, pf>>

SetStage3Mode ==
  /\ CanStep
  /\ calc.jobType = "three-stage"
  /\ \E v \in {"thickness-to-time", "time-to-thickness"} \ {calc.stage3Mode} :
       calc' = Switched([calc EXCEPT !.stage3Mode = v])
  /\ UNCHANGED <<appVars, pf>>

\* lines 581-594: the unit selector of stage 3
SetThicknessUnitStage3 ==
  /\ CanStep
  /\ calc.jobType = "three-stage"
  /\ \E newUnit \in {"um", "mm"} \ {calc.thicknessUnit} :
       calc' = Switched([calc EXCEPT
                 !.stage3ThicknessInput = IF calc.stage3Mode = "thickness-to-time"
                                          THEN ConvertedInput(calc, @, newUnit) ELSE @,
                 !.thicknessUnit = newUnit])
  /\ UNCHANGED <<appVars, pf>>

SetStage3ThicknessInput ==
  /\ CanStep
  /\ calc.jobType = "three-stage"
  /\ calc.stage3Mode = "thickness-to-time"
  /\ \E t \in ThicknessTexts : calc' = Edited([calc EXCEPT !.stage3ThicknessInput = Typed(t)])
  /\ UNCHANGED <<appVars, pf>>

SetStage3TimeInput ==
  /\ CanStep
  /\ calc.jobType = "three-stage"
  /\ calc.stage3Mode = "time-to-thickness"
  /\ \E t \in TimeTexts : calc' = Edited([calc EXCEPT !.stage3TimeInput = t])
  /\ UNCHANGED <<appVars, pf>>

\* the component is rendered again with another totalSurfaceArea_dm2
SetSurfaceArea ==
  /\ CanStep
  /\ \E area \in SurfaceAreas : calc' = Edited([calc EXCEPT !.totalSurfaceArea_dm2 = area])
  /\ UNCHANGED <<appVars, pf>>

NextCalculator ==
  \/ SetJobType
  \/ SetMaterial
  \/ SetEfficiency
  \/ SetCurrentDensity
  \/ SetMode
  \/ SetThicknessUnitSingle
  \/ SetThicknessInput
  \/ SetTimeInput
  \/ SetStage1Density
  \/ SetStage1Time
  \/ SetStage2Density
  \/ SetStage2Time
  \/ SetStage3Density
  \/ SetStage3Mode
  \/ SetThicknessUnitStage3
  \/ SetStage3ThicknessInput
  \/ SetStage3TimeInput
  \/ SetSurfaceArea

SpecCalculator == InitCalculator /\ [][NextCalculator]_vars

(***************************************************************************)
(* Properties of one call of processFile (SpecFile).                       *)
(***************************************************************************)
\* the triangles the well-formed facets of a text input stand for
RECURSIVE GoodFacets(_, _)
GoodFacets(kinds, j) ==
  IF kinds = <<>> THEN <<>>
  ELSE (IF Head(kinds) = "good"
        THEN <<Tri(VertexOf(j, 1), VertexOf(j, 2), VertexOf(j, 3))>> ELSE <<>>)
         \o GoodFacets(Tail(kinds), j + 1)

IsPrefix(p, q) == Len(p) <= Len(q) /\ SubSeq(q, 1, Len(p)) = p

\* a text input made of well-formed facets and of facets closed after 1 or 2 vertices
FacetsClosed ==
  /\ pf.pc # "idle"
  /\ pf.given.family = "ascii"
  /\ \A i \in 1..Len(pf.given.kinds) : pf.given.kinds[i] \in {"good", "short1", "short2"}

\* C4: parseASCIISTL drops a facet whose endfacet comes after 1 or 2 vertex
\* lines without mixing its vertices into a later facet, and k well-formed
\* facets give exactly their k triangles in input order with a, b, c in line order.
Thm_C4 ==
  FacetsClosed =>
    /\ pf.pc # "read" => pf.variant = "ascii"
    /\ pf.pc = "ascii" => IsPrefix(pf.ascii.triangles, GoodFacets(pf.given.kinds, 1))
    /\ pf.pc = "parsed" => pf.triangles = GoodFacets(pf.given.kinds, 1)

Witness_C4 ==
  /\ FacetsClosed
  /\ pf.given.kinds = <<"short2", "good", "good">>
  /\ pf.pc = "parsed"
  /\ Len(pf.triangles) = 2

\* a binary input whose buffer holds the records its count declares
BinaryComplete ==
  /\ pf.pc # "idle"
  /\ pf.given.family = "binary"
  /\ Len(pf.file.bytes) >= 84 + 50 * pf.given.declared

\* C5: parseBinarySTL on a buffer of at least 84 + 50 N bytes returns exactly
\* the N triangles of the records at 84 + 50 i, whatever the header, the
\* normals, the attribute bytes and the bytes after the N-th record hold.
Thm_C5 ==
  BinaryComplete =>
    /\ pf.pc # "read" => pf.variant = "binary" /\ pf.numTriangles = pf.given.declared
    /\ pf.error # "RangeError"
    /\ pf.pc = "binary" => pf.bin.triangles = SubSeq(pf.given.tris, 1, pf.bin.i)
    /\ pf.pc = "parsed" => pf.triangles = SubSeq(pf.given.tris, 1, pf.given.declared)

Witness_C5 ==
  /\ BinaryComplete
  /\ pf.given.declared = 1 /\ Len(pf.given.tris) = 2
  /\ pf.given.fill = 255 /\ pf.given.solid /\ pf.given.trail = 3
  /\ pf.pc = "parsed"
  /\ Len(pf.triangles) = 1

\* C6: a buffer shorter than 84 + 50 N bytes for its declared count N gives
\* no FileData.
Claim_C6 ==
  (/\ pf.pc = "returned"
   /\ pf.given.family = "binary"
   /\ Len(pf.file.bytes) >= 84
   /\ Len(pf.file.bytes) < 84 + 50 * pf.given.declared) => pf.result.null

\* an .stl buffer too short to hold the count, the empty buffer included
BinaryShort ==
  /\ pf.pc # "idle"
  /\ IsStlName(pf.file.name)
  /\ Len(pf.file.bytes) < 84
  /\ pf.variant = "binary"

\* a text input of the solid and endsolid lines only
TextHeaderOnly == pf.pc # "idle" /\ pf.given.family = "ascii" /\ pf.given.kinds = <<>>

\* a binary input of 84 bytes or more whose count is 0
BinaryHeaderOnly ==
  /\ pf.pc # "idle"
  /\ pf.given.family = "binary"
  /\ pf.given.declared = 0
  /\ Len(pf.file.bytes) >= 84

\* C7 as amended: parseASCIISTL returns no triangles for the empty text and
\* for a text of the header lines only, parseBinarySTL returns none for a
\* header with the count 0 and throws a RangeError for a buffer of less than
\* 84 bytes (the empty one included); processFile returns null in each case.
Thm_C7 ==
  /\ parseASCIISTL(<<>>) = <<>>
  /\ TextHeaderOnly /\ pf.pc = "parsed" => pf.triangles = <<>>
  /\ BinaryHeaderOnly /\ pf.pc = "parsed" => pf.triangles = <<>>
  /\ BinaryShort => pf.pc \in {"caught", "returned"} /\ pf.error = "RangeError"
  /\ (TextHeaderOnly \/ BinaryHeaderOnly \/ BinaryShort) /\ pf.pc = "returned" => pf.result.null

Witness_C7 ==
  /\ BinaryShort
  /\ pf.file.bytes = <<>>
  /\ pf.pc = "returned"
  /\ pf.error = "RangeError"
  /\ pf.result.null

\* C7 as stated: the binary parser returns zero triangles for an empty or
\* header-only buffer and the caller fails the file for having no triangles.
Claim_C7 ==
  (pf.pc = "returned" /\ pf.given.family \in {"short", "binary"}
     /\ Len(pf.file.bytes) <= 84 /\ pf.given.declared = 0)
    => pf.error = "No triangles found in file"

\* an input that is the encoding of its triangle list and nothing else
Encoded ==
  /\ pf.pc # "idle"
  /\ pf.given.family = "binary"
  /\ pf.file.bytes = EncodeBinarySTL(pf.given.tris)

\* C8: the encoding of a triangle list as 80 header bytes, the little-endian
\* count and 50-byte records is parsed back to the same triangles in the
\* same order, every coordinate equal to the one encoded.
Thm_C8 ==
  Encoded =>
    /\ pf.pc \in {"parsed", "returned"} => pf.triangles = pf.given.tris
    /\ pf.pc \in {"caught", "returned"} => pf.error # "RangeError"

Witness_C8 ==
  /\ Encoded
  /\ pf.pc = "parsed"
  /\ Len(pf.given.tris) = MaxTris
  /\ pf.triangles = pf.given.tris
  /\ \E i \in 1..Len(pf.triangles) : IsNaN(pf.triangles[i].a[1])
  /\ \E i \in 1..Len(pf.triangles) : pf.triangles[i].a[1] = FNeg(Dec(3, 2))

\* the bytes the detection looks at
SniffLen(buf) == Min(100, Len(buf))

\* the place of the first byte that is no white space, 0 when there is none
FirstInk(buf) ==
  IF \E i \in 1..SniffLen(buf) : ~IsWhiteSpace(buf[i])
  THEN CHOOSE i \in 1..SniffLen(buf) :
         /\ ~IsWhiteSpace(buf[i])
         /\ \A j \in 1..(i - 1) : IsWhiteSpace(buf[j])
  ELSE 0

\* the letter is c in either case
IsLetter(b, c) == b = CharCode(c) \/ b = CharCode(c) - 32

\* the sniffed bytes start with solid after white space, hold no null byte
\* and hold a line feed
LooksLikeText(buf) ==
  /\ FirstInk(buf) # 0
  /\ FirstInk(buf) + 4 <= SniffLen(buf)
  /\ \A k \in 0..4 : IsLetter(buf[FirstInk(buf) + k], <<"s","o","l","i","d">>[k + 1])
  /\ \A i \in 1..SniffLen(buf) : buf[i] # 0
  /\ \E i \in 1..SniffLen(buf) : buf[i] = 10

\* C9: isASCIISTL is true exactly when the first min(100, length) bytes start
\* with solid after trimming and lower-casing, hold no null byte and hold a
\* line break; every other .stl buffer, the empty one included, goes to the
\* binary parser.
Thm_C9 ==
  (pf.pc # "idle" /\ IsStlName(pf.file.name)) =>
    /\ isASCIISTL(pf.file.bytes) <=> LooksLikeText(pf.file.bytes)
    /\ pf.pc # "read" =>
         pf.variant = IF LooksLikeText(pf.file.bytes) THEN "ascii" ELSE "binary"

Witness_C9 ==
  /\ pf.pc = "parsed"
  /\ pf.given.family = "sniff"
  /\ pf.given.pad = 93 /\ pf.given.ws = <<>> /\ pf.given.ending = <<10>>
  /\ Len(pf.file.bytes) = 100
  /\ pf.variant = "ascii"

\* the scale factor a unit name in lower case stands for: the six units, 1 otherwise
ClaimedScale(u) ==
  CASE u = Txt(<<"m","i","c","r","o","n">>)                 -> Dec(1, 1000)
    [] u = Txt(<<"c","e","n","t","i","m","e","t","e","r">>) -> Num(10)
    [] u = Txt(<<"i","n","c","h">>)                         -> Dec(254, 10)
    [] u = Txt(<<"f","o","o","t">>)                         -> Dec(3048, 10)
    [] u = Txt(<<"m","e","t","e","r">>)                     -> Num(1000)
    [] OTHER -> Num(1)

\* C10: lengths are multiplied by 1, 10, 25.4, 0.001, 304.8 and 1000 for
\* millimeter, centimeter, inch, micron, foot and meter, and by 1 for any
\* other unit: the triangle of the 3MF input comes out scaled by that factor.
Claim_C10 ==
  (pf.pc = "parsed" /\ pf.given.family = "3mf" /\ pf.given.layout = "xml") =>
    pf.triangles =
      << Tri(Vtx(Num(0), Num(0), Num(0)),
             Vtx(FMul(Num(2), ClaimedScale(ToLowerCase(AttrOr(pf.given.unit, <<>>)))), Num(0), Num(0)),
             Vtx(Num(0), FMul(Num(3), ClaimedScale(ToLowerCase(AttrOr(pf.given.unit, <<>>)))), Num(0))) >>

(***************************************************************************)
(* Properties of the batches (Spec).                                       *)
(***************************************************************************)
\* the files of a list that are meshes processFile can measure
Parsed(fl) == SelectSeq(fl, LAMBDA id : CatalogueKinds[id] \in {"mesh", "nan"})

\* the files of a list that fail: by their type, for having no triangle, by
\* a read past the end of the buffer, for having no model entry
Failed(id) == CatalogueKinds[id] \in {"unsupported", "empty", "truncated", "nomodel"}

\* C1: a file that fails yields no FileData and does not stop the others:
\* the batch can always go on to its delivery, which hands over exactly one
\* FileData for each file that parsed, in the order given, and none for a
\* file that failed.
Thm_C1 ==
  /\ \A b \in 1..Len(batches) :
       /\ \A i \in 1..Len(batches[b].validFiles) :
            /\ i \in batches[b].settled =>
                 (batches[b].results[i].null <=> Failed(batches[b].validFiles[i]))
            /\ i \notin batches[b].settled => ENABLED FileSettled(b, i)
       /\ batches[b].settled = 1..Len(batches[b].validFiles) => ENABLED Deliver(b)
  /\ log.type = "delivered" =>
       /\ Len(log.handed) = Len(Parsed(log.batch.given))
       /\ \A k \in 1..Len(log.handed) :
            /\ ~log.handed[k].null
            /\ log.handed[k].filename = Catalogue[Parsed(log.batch.given)[k]].name

Witness_C1 ==
  /\ log.type = "delivered"
  /\ log.batch.given = <<3, 1, 6>>
  /\ Len(log.handed) = 1
  /\ files = log.handed

\* C2: the total surface area is a finite number in every reachable state,
\* a file whose area is NaN or infinite giving no FileData.
Claim_C2 ==
  /\ IsFinite(totalSurfaceArea)
  /\ \A k \in 1..Len(files) : IsFinite(files[k].surfaceArea_dm2)

\* what handleFiles hands over for the list fl under the unit u
HandedFor(fl, u) ==
  SelectSeq([k \in 1..Len(SelectSeq(fl, HasValidName)) |->
               catalogue[SelectSeq(fl, HasValidName)[k]].outcome[u]], NotNull)

\* the orders a list can be given in
PermsOf(fl) == {[k \in 1..Len(fl) |-> fl[p[k]]] : p \in Permutations(1..Len(fl))}

\* how often x occurs in q
Count(x, q) == Cardinality({k \in 1..Len(q) : q[k] = x})

SameBag(q, r) ==
  /\ Len(q) = Len(r)
  /\ \A k \in 1..Len(q) : Count(q[k], q) = Count(q[k], r)

\* the total once the FileData handed are appended to those listed before
TotalAfter(prev, handed) == SumAreas(prev \o handed, Num(0))

\* C3 as stated: the total after a batch is the same for every permutation
\* of its files and for every order in which the parses complete.
Claim_C3 ==
  log.type = "delivered" =>
    \A q \in PermsOf(log.batch.given) :
      TotalAfter(log.prev, HandedFor(q, log.batch.unit)) = TotalAfter(log.prev, log.handed)

\* C3 as amended: the FileData handed over, and with them the total, are
\* the same for every order in which the parses complete; a permutation of
\* the files hands over the same FileData in the permuted order, and the
\* total is the same when no more than two FileData are listed after the batch.
Thm_C3 ==
  log.type = "delivered" =>
    /\ log.handed = HandedFor(log.batch.given, log.batch.unit)
    /\ \A q \in PermsOf(log.batch.given) :
         /\ SameBag(HandedFor(q, log.batch.unit), log.handed)
         /\ Len(log.prev) + Len(log.handed) <= 2 =>
              TotalAfter(log.prev, HandedFor(q, log.batch.unit)) = TotalAfter(log.prev, log.handed)

Witness_C3 ==
  /\ log.type = "delivered"
  /\ ~log.batch.inOrder
  /\ log.batch.given = <<2, 3, 1>>
  /\ Len(log.handed) = 2
  /\ log.handed[1] # log.handed[2]
  /\ log.prev = <<>>

(***************************************************************************)
(* Properties of calculateSurfaceArea (SpecArea).                          *)
(***************************************************************************)
\* the cross product of the edges b - a and c - a, in exact integer arithmetic
ExactCross(sh) ==
  LET ba == <<sh.b[1] - sh.a[1], sh.b[2] - sh.a[2], sh.b[3] - sh.a[3]>>
      ca == <<sh.c[1] - sh.a[1], sh.c[2] - sh.a[2], sh.c[3] - sh.a[3]>>
  IN  <<ba[2] * ca[3] - ba[3] * ca[2], ba[3] * ca[1] - ba[1] * ca[3], ba[1] * ca[2] - ba[2] * ca[1]>>

\* three collinear or coincident vertices
Degenerate(sh) == ExactCross(sh) = <<0, 0, 0>>

TwoIdentical(sh) == sh.a = sh.b \/ sh.b = sh.c \/ sh.a = sh.c

\* a value >= 0: NaN is not
NonNegative(x) == ~IsNaN(x) /\ x.m >= 0

\* a value that is not < 0
NotNegative(x) == IsNaN(x) \/ x.m >= 0

AreaReturned == calc.op = "calculateSurfaceArea" /\ calc.pc = "returned"

\* C11 as stated: the area is >= 0, and it is 0 exactly when the list is
\* empty or every triangle is degenerate.
Claim_C11 ==
  AreaReturned =>
    /\ NonNegative(calc.result)
    /\ calc.result = Num(0) <=> \A i \in 1..Len(calc.given) : Degenerate(calc.given[i])

\* C11 as amended: the area is never negative (it is >= 0, or NaN when a
\* product or a difference of coordinates overflows); it is 0 for the empty
\* list; and whenever it is finite, a triangle with two identical vertices
\* adds 0 to the sum, so that the area is 0 when every triangle has two
\* identical vertices.
Thm_C11 ==
  AreaReturned =>
    /\ NotNegative(calc.result)
    /\ calc.given = <<>> => calc.result = Num(0)
    /\ IsFinite(calc.result) =>
         /\ calc.result =
              calculateSurfaceArea(SelectSeq(calc.triangles,
                                             LAMBDA t : t.a # t.b /\ t.b # t.c /\ t.a # t.c),
                                   calc.unit)
         /\ (\A i \in 1..Len(calc.given) : TwoIdentical(calc.given[i])) => calc.result = Num(0)

Witness_C11 ==
  /\ AreaReturned
  /\ Len(calc.given) = 2
  /\ calc.given[1].b = calc.given[1].c /\ calc.given[1].a # calc.given[1].b
  /\ ~Degenerate(calc.given[2])
  /\ IsFinite(calc.result)
  /\ calc.result.m > 0

\* the millimeters in one unit, as the fraction n / d
MillimetersPer(u) ==
  CASE u = "mm" -> [n |-> 1, d |-> 1]
    [] u = "cm" -> [n |-> 10, d |-> 1]
    [] u = "inch" -> [n |-> 254, d |-> 10]

\* the number nearest to x * n / d
TimesFraction(x, n, d) ==
  IF ~IsFinite(x) THEN x
  ELSE RoundQuot(IF x.m < 0 THEN -1 ELSE 1, Abs(x.m) * n, d, x.e)

\* the same physical triangles given in millimeters: every coordinate is the
\* number nearest to its length in millimeters
InMillimeters(triangles, u) ==
  LET V(v) == <<TimesFraction(v[1], MillimetersPer(u).n, MillimetersPer(u).d),
                TimesFraction(v[2], MillimetersPer(u).n, MillimetersPer(u).d),
                TimesFraction(v[3], MillimetersPer(u).n, MillimetersPer(u).d)>>
  IN  [i \in 1..Len(triangles) |-> Tri(V(triangles[i].a), V(triangles[i].b), V(triangles[i].c))]

\* the coordinates times the double nearest to the length factor, each
\* product rounded
TimesFactor(triangles, u) ==
  LET f    == Dec(MillimetersPer(u).n, MillimetersPer(u).d)
      V(v) == <<FMul(v[1], f), FMul(v[2], f), FMul(v[3], f)>>
  IN  [i \in 1..Len(triangles) |-> Tri(V(triangles[i].a), V(triangles[i].b), V(triangles[i].c))]

\* C12 as stated: the area under a unit equals the area of the same physical
\* triangles given in millimeters, and equals the 'mm' area of the same
\* coordinates times the square of the length factor.
Claim_C12 ==
  AreaReturned =>
    /\ calc.result = calculateSurfaceArea(InMillimeters(calc.triangles, calc.unit), "mm")
    /\ calc.result = TimesFraction(calculateSurfaceArea(calc.triangles, "mm"),
                                   MillimetersPer(calc.unit).n * MillimetersPer(calc.unit).n,
                                   MillimetersPer(calc.unit).d * MillimetersPer(calc.unit).d)

\* C12 as amended: the area under a unit equals the 'mm' area of the
\* coordinates multiplied by the factor 1, 10 or the double nearest 25.4,
\* each product rounded; for 'cm' and 'mm' these are the numbers nearest to
\* the physical lengths in millimeters, so the area equals that of the same
\* physical triangle given in millimeters.
Thm_C12 ==
  AreaReturned =>
    /\ calc.result = calculateSurfaceArea(TimesFactor(calc.triangles, calc.unit), "mm")
    /\ calc.unit \in {"mm", "cm"} =>
         calc.result = calculateSurfaceArea(InMillimeters(calc.triangles, calc.unit), "mm")

Witness_C12 ==
  /\ AreaReturned
  /\ calc.unit = "cm"
  /\ Len(calc.given) = 1
  /\ ~Degenerate(calc.given[1])
  /\ IsFinite(calc.result)
  /\ calc.result.m > 0
  /\ calc.result # calculateSurfaceArea(calc.triangles, "mm")

(***************************************************************************)
(* Properties of extract3MFXML (SpecZip).                                  *)
(***************************************************************************)
\* the first entry of the archive under one of the rules, 0 when there is none
FirstUnder(q, rules) ==
  IF \E i \in 1..Len(q) : q[i].rule \in rules
  THEN CHOOSE i \in 1..Len(q) : q[i].rule \in rules /\ \A j \in 1..(i - 1) : q[j].rule \notin rules
  ELSE 0

\* the entry the fixed priority names
Preferred(q) ==
  IF FirstUnder(q, {"canonical"}) # 0 THEN FirstUnder(q, {"canonical"})
  ELSE IF FirstUnder(q, {"bare"}) # 0 THEN FirstUnder(q, {"bare"})
  ELSE IF FirstUnder(q, {"model"}) # 0 THEN FirstUnder(q, {"model"})
  ELSE FirstUnder(q, {"xml"})

\* C18: the model document of an archive is the entry '3D/3dmodel.model',
\* else '3dmodel.model', else the first entry named *.model or *.xml with
\* 'model' in its name, else the first *.xml entry; without such an entry
\* the extraction throws and processFile gives no FileData.
Thm_C18 ==
  (calc.op = "extract3MFXML" /\ calc.pc = "returned") =>
    /\ calc.result.threw <=> Preferred(calc.given) = 0
    /\ ~calc.result.threw => calc.result.doc = EntryDoc(Preferred(calc.given))
    /\ calc.result.threw => \A u \in STLUnits : processFile(calc.file, u).null

Witness_C18 ==
  /\ calc.op = "extract3MFXML" /\ calc.pc = "returned"
  /\ Len(calc.given) = 3
  /\ calc.given[1].rule = "xml" /\ calc.given[2].rule = "model" /\ calc.given[3].rule = "bare"
  /\ calc.result.doc = EntryDoc(3)

(***************************************************************************)
(* Properties of one call of parse3MF (Spec3MF).                           *)
(***************************************************************************)
ParseReturned == calc.op = "parse3MF" /\ calc.pc = "returned"

\* an index triple whose three indices name a vertex element of the object
NamesVertices(triple) == \A j \in 1..3 : triple[j] >= 0 /\ triple[j] < Len(SourceVertex)

\* the document without the triangle elements that have an index out of range
WithoutDropped(d) ==
  [d EXCEPT !.objects =
     [i \in 1..Len(d.objects) |->
        [d.objects[i] EXCEPT !.triples = SelectSeq(@, NamesVertices)]]]

\* C13: a triangle element with an index below 0 or not below the vertex
\* count is dropped without failing the file, with or without a transform
\* attribute on its object: the call does not throw and returns exactly the
\* triangles it returns for the document without those elements.
Claim_C13 ==
  ParseReturned =>
    /\ ~calc.result.threw
    /\ calc.result.triangles = parse3MF(XmlFile(DocumentOf(WithoutDropped(calc.given)))).triangles

\* the vertex the specification gives for a source vertex: moved by the
\* translation of the transform, then multiplied by the scale factor
ClaimedVertex(v, kind, scale) ==
  Vtx(FMul(scale, Num(v[1])), FMul(scale, Num(v[2])),
      FMul(scale, Num(v[3] + (IF kind = "translate" THEN 5 ELSE 0))))

\* the triangles the specification gives for the objects of a document
RECURSIVE ClaimedTriangles(_, _)
ClaimedTriangles(objects, scale) ==
  IF objects = <<>> THEN <<>>
  ELSE LET sh  == Head(objects)
           ok  == SelectSeq(sh.triples, NamesVertices)
       IN  [i \in 1..Len(ok) |->
              Tri(ClaimedVertex(SourceVertex[ok[i][1] + 1], sh.transform, scale),
                  ClaimedVertex(SourceVertex[ok[i][2] + 1], sh.transform, scale),
                  ClaimedVertex(SourceVertex[ok[i][3] + 1], sh.transform, scale))]
           \o ClaimedTriangles(Tail(objects), scale)

\* the objects with their transform attribute removed
Untransformed(objects) == [i \in 1..Len(objects) |-> [objects[i] EXCEPT !.transform = "none"]]

Translated(d) == \E i \in 1..Len(d.objects) : d.objects[i].transform = "translate"

WellSpelled(d) == \A i \in 1..Len(d.objects) : d.objects[i].spelling # "junk"

\* C14: with transform '1 0 0 0 0 1 0 0 0 0 1 5' every vertex (x, y, z) of
\* the triangles of the object becomes (x, y, z + 5) before unit scaling, and
\* the surface area of the triangles is the area without the transform; here
\* for documents without a unit attribute, whose scale factor is 1.
Claim_C14 ==
  (ParseReturned /\ calc.given.unit = Null /\ WellSpelled(calc.given) /\ Translated(calc.given)) =>
    /\ calc.result.triangles = ClaimedTriangles(calc.given.objects, Num(1))
    /\ calculateSurfaceArea(calc.result.triangles, "mm") =
         calculateSurfaceArea(ClaimedTriangles(Untransformed(calc.given.objects), Num(1)), "mm")

\* the document with the identity transform on every object that has no
\* transform attribute or one that does not give 12 numbers
WithIdentity(d) ==
  [d EXCEPT !.objects =
     [i \in 1..Len(d.objects) |->
        [d.objects[i] EXCEPT !.transform =
           IF @ \in {"none", "eleven", "letter"} THEN "identity" ELSE @]]]

\* C15: for every document and unit the call returns the same triangles when
\* an object has no transform attribute as when it carries the identity
\* '1 0 0 0 0 1 0 0 0 0 1 0'; an attribute that does not give exactly 12
\* numbers is treated in the same way and is never an error.
Claim_C15 ==
  ParseReturned =>
    calc.result = parse3MF(XmlFile(DocumentOf(WithIdentity(calc.given))))

\* every triangle element of the document names three vertex elements
AllNamed(d) ==
  \A i \in 1..Len(d.objects) :
    \A j \in 1..Len(d.objects[i].triples) : NamesVertices(d.objects[i].triples[j])

\* C16: each coordinate of each returned triangle is the coordinate of the
\* transformed source vertex multiplied by the scale factor of the unit
\* exactly once (1 when the unit is absent), also for a vertex referenced by
\* several triangles or several times in one triangle; here for documents
\* in which no triangle element is dropped.
Claim_C16 ==
  (ParseReturned /\ AllNamed(calc.given) /\ WellSpelled(calc.given)) =>
    /\ ~calc.result.threw
    /\ calc.result.triangles =
         ClaimedTriangles(calc.given.objects,
                          ClaimedScale(ToLowerCase(AttrOr(calc.given.unit, <<>>))))

\* the document with the x attribute of every vertex element written out
Respelled(d) ==
  [d EXCEPT !.objects = [i \in 1..Len(d.objects) |-> [d.objects[i] EXCEPT !.spelling = "plain"]]]

AnyNaN(triangles) ==
  \E i \in 1..Len(triangles), j \in 1..3 :
    IsNaN(triangles[i].a[j]) \/ IsNaN(triangles[i].b[j]) \/ IsNaN(triangles[i].c[j])

\* C17: a vertex attribute that is absent or does not parse as a number is
\* read as 0: the call returns what it returns when the attribute is written
\* as 0, and no returned coordinate is NaN; here for documents in which no
\* triangle element is dropped.
Claim_C17 ==
  (ParseReturned /\ AllNamed(calc.given)) =>
    /\ calc.result = parse3MF(XmlFile(DocumentOf(Respelled(calc.given))))
    /\ ~AnyNaN(calc.result.triangles)

\* C19: the result for a .3mf file does not depend on the selected unit:
\* the FileData of the call is the FileData for 'mm', 'cm' and 'inch' alike,
\* its area being the area of the parsed triangles measured as millimeters;
\* the selection changes the result of .stl files only, where an area that
\* is a number other than 0 differs between 'mm' and 'inch'.
Thm_C19 ==
  pf.pc = "returned" =>
    /\ ~IsStlName(pf.file.name) =>
         /\ \A u \in STLUnits : pf.result = processFile(pf.file, u)
         /\ ~pf.result.null =>
              pf.result.surfaceArea_dm2 = calculateSurfaceArea(pf.triangles, "mm")
    /\ (IsStlName(pf.file.name) /\ ~pf.result.null
        /\ IsFinite(pf.result.surfaceArea_dm2) /\ pf.result.surfaceArea_dm2 # Num(0)) =>
         processFile(pf.file, "mm") # processFile(pf.file, "inch")

Witness_C19 ==
  /\ pf.pc = "returned"
  /\ Is3mfName(pf.file.name)
  /\ pf.unit = "inch"
  /\ UnitScale(pf.file.doc) = Num(1)
  /\ ~pf.result.null
  /\ pf.result.surfaceArea_dm2 = FDivInt(Num(3), 10000)

(***************************************************************************)
(* Properties of the plating formulas (SpecPlating).                       *)
(***************************************************************************)
PlatingReturned == calc.op = "platingFormulas" /\ calc.pc = "returned"

\* the values computed on the way from a thickness to a time
TimeSteps(x, d, e, m) ==
  {FMul(FARADAY_CONSTANTS[m], x), FMul(d, e), calculateTimeFromThickness(x, d, e, m)}

\* the values computed on the way from a time to a thickness
ThicknessSteps(x, d, e, m) ==
  {FMul(x, d), FMul(FMul(x, d), e), calculateThicknessFromTime(x, d, e, m)}

\* no product or quotient of the two calls overflows
NoOverflow ==
  \A v \in (IF calc.first = "calculateTimeFromThickness"
            THEN TimeSteps(calc.input, calc.currentDensity, calc.efficiency, calc.material) \cup
                 ThicknessSteps(calc.middle, calc.currentDensity, calc.efficiency, calc.material)
            ELSE ThicknessSteps(calc.input, calc.currentDensity, calc.efficiency, calc.material) \cup
                 TimeSteps(calc.middle, calc.currentDensity, calc.efficiency, calc.material)) :
    IsFinite(v)

\* |x - y| <= k * 2^-Precision * |y|: x is y up to k roundings
Within(x, y, k) ==
  IF ~IsFinite(x) \/ ~IsFinite(y) THEN FALSE
  ELSE IF y.m = 0 THEN x.m = 0
  ELSE IF x.m = 0 THEN FALSE
  ELSE IF x.e - y.e > Precision + 4 \/ y.e - x.e > Precision + 4 THEN FALSE
  ELSE LET e0 == IF x.e < y.e THEN x.e ELSE y.e
           dx == x.m * Pow2(x.e - e0)
           dy == y.m * Pow2(y.e - e0)
       IN  Abs(dx - dy) * Pow2(Precision) <= k * Abs(dy)

\* the documented example is being computed: Copper, 2 A/dm2, efficiency 1, 10 microns
DocumentedExample ==
  /\ calc.op = "platingFormulas"
  /\ calc.pc = "half"
  /\ calc.first = "calculateTimeFromThickness"
  /\ calc.input = Num(10)
  /\ calc.currentDensity = Num(2)
  /\ calc.efficiency = Num(1)
  /\ calc.material = "Copper"

\* C20 as stated: for each material, current density > 0 and efficiency > 0
\* the thickness computed from the time computed from a thickness is that
\* thickness, and the time computed from the thickness computed from a time
\* is that time; for Copper, 2 A/dm2, efficiency 1 and 10 microns the time
\* is 1352.5 s.
Claim_C20 ==
  /\ PlatingReturned => calc.result = calc.input
  /\ DocumentedExample => calc.middle = Dec(13525, 10)

\* C20, amended: when no product or quotient overflows, the value that comes
\* back is a number and is the value given up to the six roundings of the
\* two calls (a relative error of at most 7 * 2^-Precision; 0 comes back as
\* 0); the time of the documented example is 1352.5 s up to the roundings
\* of K, of the product, of the quotient and of 1352.5 itself.
Thm_C20 ==
  /\ (PlatingReturned /\ NoOverflow) => Within(calc.result, calc.input, 7)
  /\ DocumentedExample => Within(calc.middle, Dec(13525, 10), 4)

Witness_C20 ==
  /\ PlatingReturned
  /\ NoOverflow
  /\ calc.first = "calculateTimeFromThickness"
  /\ calc.material = "Nickel"
  /\ calc.efficiency = Dec(9, 10)
  /\ calc.result # calc.input

(***************************************************************************)
(* Properties of formatTime and parseTime (SpecTime).                      *)
(***************************************************************************)
\* the text of a field of at least two digits, without a leading zero
\* beyond the second digit from the right, that stands for n
TwoDigits(text, n) ==
  /\ Len(text) >= 2
  /\ DigitPrefix(text) = text
  /\ DigitsValue(text, 0) = n
  /\ Len(text) > 2 => text[1] # 48

\* the text is the zero-padded rendering HH:MM:SS of s
Rendering(text, s) ==
  LET fields == SplitChar(text, Colon)
  IN  /\ Len(fields) = 3
      /\ TwoDigits(fields[1], s \div 3600)
      /\ TwoDigits(fields[2], (s \div 60) % 60) /\ Len(fields[2]) = 2
      /\ TwoDigits(fields[3], s % 60) /\ Len(fields[3]) = 2

\* every field of the text is a number written in digits
AllDigits(fields) == \A i \in 1..Len(fields) : fields[i].kind = "digits"

\* the number of seconds a text of one, two or three fields of digits stands for
SecondsOf(fields) ==
  IF Len(fields) = 3 THEN 3600 * fields[1].n + 60 * fields[2].n + fields[3].n
  ELSE IF Len(fields) = 2 THEN 60 * fields[1].n + fields[2].n
  ELSE fields[1].n

Formatted == calc.op = "time" /\ calc.route = "formatTime" /\ calc.pc # "called"

RoundTripped == calc.op = "time" /\ calc.route = "formatTime" /\ calc.pc = "returned"

ParsedDigits ==
  /\ calc.op = "time" /\ calc.route = "parseTime" /\ calc.pc = "returned"
  /\ Len(calc.given) <= 3 /\ AllDigits(calc.given)

\* C21 as stated: for every whole number of seconds s >= 0 formatTime(s) is
\* the zero-padded rendering HH:MM:SS of s, '01:01:01' for 3661, and
\* parseTime of it is s; parseTime reads HH:MM:SS as 3600 HH + 60 MM + SS,
\* MM:SS as 60 MM + SS and a bare number as that many seconds.
Claim_C21 ==
  /\ Formatted =>
       /\ Rendering(calc.text, calc.seconds)
       /\ calc.seconds = 3661 => calc.text = <<48, 49, Colon, 48, 49, Colon, 48, 49>>
  /\ RoundTripped => calc.result.k = "whole" /\ calc.result.n = calc.seconds
  /\ ParsedDigits => calc.result.k = "whole" /\ calc.result.n = SecondsOf(calc.given)

\* C21, amended: the same for the whole numbers of seconds below
\* 2^SafeBits, on which the arithmetic is exact.
Thm_C21 ==
  /\ (Formatted /\ calc.seconds < Pow2(SafeBits)) =>
       /\ Rendering(calc.text, calc.seconds)
       /\ calc.seconds = 3661 => calc.text = <<48, 49, Colon, 48, 49, Colon, 48, 49>>
  /\ (RoundTripped /\ calc.seconds < Pow2(SafeBits)) =>
       calc.result.k = "whole" /\ calc.result.n = calc.seconds
  /\ (ParsedDigits /\ SecondsOf(calc.given) < Pow2(SafeBits)) =>
       calc.result.k = "whole" /\ calc.result.n = SecondsOf(calc.given)

Witness_C21 ==
  /\ RoundTripped
  /\ calc.seconds = 3661
  /\ calc.text = <<48, 49, Colon, 48, 49, Colon, 48, 49>>
  /\ calc.result = Whole(3661)

\* C22: parseTime returns 0, and neither throws nor returns a value that is
\* no number, for every text that is not HH:MM:SS, MM:SS or a bare number
\* of seconds: here a text with a field of letters, or with more than
\* three fields.
Claim_C22 ==
  (calc.op = "time" /\ calc.route = "parseTime" /\ calc.pc = "returned"
   /\ (Len(calc.given) > 3 \/ \E i \in 1..Len(calc.given) : calc.given[i].kind = "text")) =>
    calc.result = Whole(0)

(***************************************************************************)
(* Properties of the PlatingCalculator (SpecCalculator).                   *)
(***************************************************************************)
Rendered == calc.op = "PlatingCalculator"

\* the thickness a stage deposits, from its own time and density; 0 when
\* its time or its density is no number above 0
Deposited(c, time, density) ==
  IF Positive(ParsedSeconds(time)) /\ Positive(OrZero(InputNumber(density)))
  THEN calculateThicknessFromTime(ParsedSeconds(time), OrZero(InputNumber(density)),
                                  Dec(c.efficiency, 100), c.material)
  ELSE Num(0)

\* the thickness of stages 1 and 2 together
Accumulated(c) ==
  FAdd(Deposited(c, c.stage1Time, c.stage1Density), Deposited(c, c.stage2Time, c.stage2Density))

\* what is left of the target of stage 3 after stages 1 and 2
Remaining(c) == FSub(ThreeStageTarget(c), Accumulated(c))

\* C23: in a three-stage job the thickness after stage 2 is the sum of the
\* thicknesses of stages 1 and 2, each from its own density and time; in
\* thickness-to-time mode with a target above that sum the time of stage 3
\* is calculateTimeFromThickness of the remaining thickness, and in
\* time-to-thickness mode the final thickness is that sum plus the
\* thickness of stage 3.
Thm_C23 ==
  (Rendered /\ calc.jobType = "three-stage") =>
    /\ thicknessAfterStage1(calc).value = Deposited(calc, calc.stage1Time, calc.stage1Density)
    /\ thicknessAfterStage2(calc).value = Accumulated(calc)
    /\ (calc.stage3Mode = "thickness-to-time" /\ Positive(Remaining(calc))
        /\ Positive(stage3DensityNum(calc))) =>
         calculatedTime(calc).value =
           calculateTimeFromThickness(Remaining(calc), stage3DensityNum(calc),
                                      Dec(calc.efficiency, 100), calc.material)
    /\ (calc.stage3Mode = "time-to-thickness"
        /\ Positive(Deposited(calc, calc.stage3TimeInput, calc.stage3Density))) =>
         calculatedThickness(calc).value =
           FAdd(Accumulated(calc), Deposited(calc, calc.stage3TimeInput, calc.stage3Density))

Witness_C23 ==
  /\ Rendered
  /\ calc.jobType = "three-stage"
  /\ calc.stage3Mode = "thickness-to-time"
  /\ Positive(Accumulated(calc))
  /\ Positive(Remaining(calc))
  /\ calculatedTime(calc).value # NullValue
  /\ calculatedTime(calc).value # calculatedTimeOfTarget(calc).value

\* C27: in every state every call of calculateTimeFromThickness,
\* calculateThicknessFromTime and calculateDepositionRate is made with a
\* current density > 0 and an efficiency > 0, every call of
\* calculateTotalCurrent with a current density > 0, and every value of a
\* rendering is null or a finite number.
Thm_C27 ==
  Rendered =>
    \A memo \in Memos(calc) :
      /\ \A call \in memo.calls : Positive(call.density) /\ Positive(call.efficiency)
      /\ memo.value = NullValue \/ IsFinite(memo.value)

Witness_C27 ==
  /\ Rendered
  /\ calc.jobType = "single"
  /\ calc.currentDensity = Typed(Txt(<<"0">>))
  /\ Positive(calc.totalSurfaceArea_dm2)
  /\ depositionRate(calc) = Memo(Num(0), {})
  /\ totalCurrent(calc) = Memo(Num(0), {})
  /\ calculatedTime(calc) = Memo(NullValue, {})

\* C30: a change of the thickness unit never changes the target thickness:
\* after changes of unit, of mode and of job type, with no other handler in
\* between, the targets in micrometers of the single-stage job and of the
\* three-stage job are what they were before.
Claim_C30 ==
  Rendered => Kept(calc) = calc.kept

\* C24: the 12-number transform of an object is applied exactly once to each
\* vertex of each triangle returned for that object and to no triangle of
\* another object, in documents of several objects and also when triangle
\* elements of an object were dropped for an index out of range; here for
\* documents without a unit attribute, whose scale factor is 1: the call
\* returns, object by object, the triangles of the kept elements moved by
\* the transform of their own object.
Claim_C24 ==
  (ParseReturned /\ calc.given.unit = Null /\ WellSpelled(calc.given)) =>
    /\ ~calc.result.threw
    /\ calc.result.triangles = ClaimedTriangles(calc.given.objects, Num(1))

(***************************************************************************)
(* Properties of the loop of parseASCIISTL inside processFile (SpecFile).  *)
(***************************************************************************)
\* the loop of parseASCIISTL is about to read a line of a text made of facets
ReadsLine == pf.pc = "ascii" /\ pf.given.family = "ascii" /\ pf.lineNo <= Len(pf.lines)

\* the tokens of a line
LineParts(line) == SplitWhiteSpace(Trim(line), <<>>)

\* a line of the vertex keyword
VertexKeyword(parts) == Len(parts) >= 1 /\ parts[1] = KwVertex

\* the first three tokens after the keyword all parse as numbers
ThreeNumbers(parts) ==
  /\ Len(parts) >= 4
  /\ \A i \in 2..4 : ~IsNaN(ParseFloat(parts[i]))

\* the vertices pending in the locals of the loop
Pending(st) ==
  SubSeq(<<st.currentTriangle.a, st.currentTriangle.b, st.currentTriangle.c>>, 1, st.vertexIndex)

\* the line was consumed as the vertex v: v joined the pending vertices, or
\* completed them to a triangle appended to the triangles
TakesVertex(before, after, v) ==
  IF Len(Pending(before)) = 2
  THEN /\ after.triangles = Append(before.triangles, Tri(Pending(before)[1], Pending(before)[2], v))
       /\ Pending(after) = <<>>
  ELSE /\ after.triangles = before.triangles
       /\ Pending(after) = Append(Pending(before), v)

\* a line that is no vertex leaves the triangles, and the pending vertices
\* unless it empties them
TakesNoVertex(before, after) ==
  /\ after.triangles = before.triangles
  /\ Pending(after) \in {Pending(before), <<>>}

\* the vertex of the tokens after the keyword
PartsVertex(parts) == Vtx(ParseFloat(parts[2]), ParseFloat(parts[3]), ParseFloat(parts[4]))

SetInOrder(st) ==
  /\ (st.currentTriangle.a # Undefined) = (st.vertexIndex >= 1)
  /\ (st.currentTriangle.b # Undefined) = (st.vertexIndex >= 2)
  /\ (st.currentTriangle.c # Undefined) = (st.vertexIndex >= 3)

\* parseASCIISTL has returned its triangles to processFile
AsciiReturned == pf.pc = "parsed" /\ pf.variant = "ascii"

\* C26: after every line the pending vertices are 0, 1 or 2; a line leaves
\* the triangles as they are or appends one, and appends one only when it
\* gives the third pending vertex, which is the c of the new triangle; the
\* call returns the triangles appended, so 1 or 2 vertices pending at the
\* end of the input give no triangle.
Thm_C26 ==
  /\ pf.pc = "ascii" => pf.ascii.vertexIndex \in 0..2 /\ SetInOrder(pf.ascii)
  /\ ReadsLine =>
       LET tokens == LineParts(pf.lines[pf.lineNo])
           locals == AsciiLine(pf.ascii, pf.lines[pf.lineNo])
       IN  \/ locals.triangles = pf.ascii.triangles
           \/ /\ Len(Pending(pf.ascii)) = 2
              /\ VertexKeyword(tokens)
              /\ locals.triangles =
                   Append(pf.ascii.triangles,
                          Tri(Pending(pf.ascii)[1], Pending(pf.ascii)[2], PartsVertex(tokens)))
  /\ AsciiReturned => pf.triangles = pf.ascii.triangles

\* a facet of 3 vertex lines, then 2 vertex lines and the end of the input
Witness_C26 ==
  /\ pf.pc = "parsed"
  /\ pf.given.family = "ascii"
  /\ pf.given.kinds = <<"good", "open">>
  /\ Len(Pending(pf.ascii)) = 2
  /\ pf.triangles = <<Tri(VertexOf(1, 1), VertexOf(1, 2), VertexOf(1, 3))>>

(***************************************************************************)
(* Properties of overlapping batches in App and FileDropZone (Spec).       *)
(***************************************************************************)
\* a batch started by the FileDropZone that is rendered awaits its results
InFlight == \E b \in 1..Len(batches) : batches[b].instance = instance

\* C28: while FileDropZone is rendered, isProcessing is true whenever a batch
\* started by its handleFiles has not yet delivered its results, also when a
\* second batch was started while an earlier one was being processed, and it
\* is false when no batch is in flight.
Claim_C28 == inputMode = "upload" => (isProcessing <=> InFlight)

\* the FileData of the files of a batch: what processFile makes of each valid
\* file at the unit of the batch, in the order of the files, failures left out
BatchFileData(batch) ==
  SelectSeq([i \in 1..Len(batch.validFiles) |-> catalogue[batch.validFiles[i]].outcome[batch.unit]],
            NotNull)

\* the step ends the batch b and hands over its results
Delivers(b) == batches[b].settled = 1..Len(batches[b].validFiles) /\ batches' = Remove(batches, b)

\* the step is Clear All Files
Clears == inputMode = "upload" /\ files # <<>> /\ files' = <<>> /\ batches' = batches

\* C29: in either input mode each batch that ends leaves the file list as
\* the previous list followed by the FileData of that batch, each once,
\* whatever other batches are in flight; the list changes in no other way
\* than by such a delivery or by Clear All Files, which alone makes a
\* non-empty list empty; switching the input mode leaves the list unchanged.
Thm_C29 ==
  [][/\ \A b \in 1..Len(batches) :
          Delivers(b) => files' = files \o BatchFileData(batches[b])
     /\ Len(batches') < Len(batches) => \E b \in 1..Len(batches) : Delivers(b)
     /\ files' # files => Clears \/ \E b \in 1..Len(batches) : Delivers(b)
     /\ (files # <<>> /\ files' = <<>>) => Clears
     /\ inputMode' # inputMode => files' = files /\ batches' = batches]_vars

\* a batch has handed its FileData over while another batch was being
\* processed: the indicator of the first mount of FileDropZone is cleared
\* and a batch it started is still in flight
Witness_C29 ==
  /\ log.type = "delivered"
  /\ log.handed # <<>>
  /\ files = log.prev \o log.handed
  /\ inputMode = "upload" /\ instance = 1
  /\ ~isProcessing
  /\ batches # <<>>

=============================================================================
